---- MODULE Spec2Model ----
(***************************************************************************)
(* A model of the PDF report engine of mcp-data-assistant                  *)
(* (tools/pdf_tool.py), of the Gradio wrapper around it (app.py), of the   *)
(* SQL tool (tools/sql_tool.py) and of the session layer of the chat       *)
(* (agent/session_manager.py, agent/assistant.py, respond of app.py).      *)
(*                                                                         *)
(* Python values are tagged records of one shape, so that dictionaries,    *)
(* lists and scalars can be mixed the way the code mixes them:             *)
(*   t : "int" | "float" | "bool" | "str" | "none" | "list" | "dict"       *)
(*   n : the integer of an int, twice the value of a float (halves),       *)
(*       1/0 for a bool                                                    *)
(*   s : the text of a str                                                 *)
(*   l : the elements of a list                                            *)
(*   d : the <<key, value>> pairs of a dict, in insertion order            *)
(***************************************************************************)
EXTENDS Integers, Sequences, FiniteSets, TLC

VARIABLES
    disk,      \* names of the temporary chart images that exist on disk
    pdfs,      \* resolved paths of the documents that exist on disk
    dirs,      \* directories that exist
    assets,    \* logo image files that exist
    nextTmp,   \* the next unused temporary file name
    figs,      \* matplotlib figures that are open
    now,       \* wall clock, in seconds
    b,         \* the PdfReportBuilder of the call in hand
    phase,     \* history of b: "none", "empty", "building", "saved", "failed"
    ret,       \* outcome of the last call
    doc,       \* the blocks that doc.build laid out for the builder in hand
    calls,     \* the calls of the process in hand: the create_pdf calls of the
               \* last create_pdf_wrapper call, the create_chart calls of a
               \* caller of it, the create_pdf calls in flight in a server
    sessions,  \* session_manager.sessions: session id -> SessionContext
    agent,     \* the instructions and the model of the module-level agent
    running,   \* the answer() calls in progress, one per thread
    nextId,    \* the next unused uuid
    db,        \* engines created and statements handed to the database
    res        \* outcome of the last call of the chat layer or of run_sql

pdfVars == <<disk, pdfs, dirs, assets, nextTmp, figs, now, b, phase, ret, doc, calls>>
chatVars == <<sessions, agent, running, nextId, db, res>>
vars == <<pdfVars, chatVars>>

(***************************************************************************)
(* Bounds of the model.                                                    *)
(***************************************************************************)
MaxTmp == 1        \* a call starts while temp names and leaked figures are below it
MaxBuilderTmp == 2 \* the same, for a builder driven by hand
MaxStory == 8      \* a builder driven by hand takes mutators up to this length
MaxKeys == 3       \* most generic fields of a flat payload
MaxSections == 2   \* most entries of a payload's sections list
MaxCharts == 3     \* most create_chart calls of a caller of the function
MaxInFlight == 2   \* most create_pdf calls that a server has in flight
MaxNow == 1        \* the last second of the wall clock
MaxFields == 2     \* most keys of a mapping given to the table formatter
MaxRecords == 2
MaxThreads == 2      \* threads that call answer side by side
MaxSessions == 2     \* session ids handed out
MaxMessages == 4     \* messages in the history of a session when a call starts
MaxPieces == 4       \* pieces of text in a query
MaxEngines == 1      \* engines created for the database    \* most items of a list given to the table formatter

(***************************************************************************)
(* Python values.                                                          *)
(***************************************************************************)
IntV(i) == [t |-> "int", n |-> i, s |-> "", l |-> <<>>, d |-> <<>>]
FloatV(h) == [t |-> "float", n |-> h, s |-> "", l |-> <<>>, d |-> <<>>]
BoolV(x) == [t |-> "bool", n |-> IF x THEN 1 ELSE 0, s |-> "", l |-> <<>>, d |-> <<>>]
StrV(x) == [t |-> "str", n |-> 0, s |-> x, l |-> <<>>, d |-> <<>>]
NoneV == [t |-> "none", n |-> 0, s |-> "", l |-> <<>>, d |-> <<>>]
ListV(xs) == [t |-> "list", n |-> 0, s |-> "", l |-> xs, d |-> <<>>]
DictV(kv) == [t |-> "dict", n |-> 0, s |-> "", l |-> <<>>, d |-> kv]

Range(f) == {f[i] : i \in DOMAIN f}

\* `key in data`
HasKey(v, k) == \E i \in DOMAIN v.d : v.d[i][1] = k

\* data.get(key, default)
Get(v, k, default) ==
    IF HasKey(v, k)
    THEN v.d[CHOOSE i \in DOMAIN v.d : v.d[i][1] = k][2]
    ELSE default

\* bool(value): Python truthiness
Truthy(v) ==
    CASE v.t = "none" -> FALSE
      [] v.t \in {"int", "float", "bool"} -> v.n # 0
      [] v.t = "str" -> v.s # ""
      [] v.t = "list" -> Len(v.l) > 0
      [] v.t = "dict" -> Len(v.d) > 0

\* isinstance(v, (int, float)): bool is a subclass of int
IsIntOrFloat(v) == v.t \in {"int", "float", "bool"}

(***************************************************************************)
(* str(value) and repr(value), as the table formatter uses them.           *)
(***************************************************************************)
RECURSIVE Join(_, _)
Join(parts, sep) ==
    IF Len(parts) = 0 THEN ""
    ELSE IF Len(parts) = 1 THEN parts[1]
    ELSE parts[1] \o sep \o Join(Tail(parts), sep)

FloatText(h) ==
    ToString(h \div 2) \o (IF h % 2 = 0 THEN ".0" ELSE ".5")

RECURSIVE Repr(_)
Repr(v) ==
    CASE v.t = "int" -> ToString(v.n)
      [] v.t = "float" -> FloatText(v.n)
      [] v.t = "bool" -> IF v.n = 1 THEN "True" ELSE "False"
      [] v.t = "none" -> "None"
      [] v.t = "str" -> "'" \o v.s \o "'"
      [] v.t = "list" ->
            "[" \o Join([i \in DOMAIN v.l |-> Repr(v.l[i])], ", ") \o "]"
      [] v.t = "dict" ->
            "{" \o Join([i \in DOMAIN v.d |->
                            "'" \o v.d[i][1] \o "': " \o Repr(v.d[i][2])], ", ")
                \o "}"

Str(v) == IF v.t = "str" THEN v.s ELSE Repr(v)

(***************************************************************************)
(* Table Formatter: _build_table and _build_table_from_list.               *)
(* A table is [rows, styles]; a row is a sequence of cells (values); a     *)
(* style entry names its command, the rows it spans and its colour.        *)
(***************************************************************************)
Style(cmd, r0, r1, color) == [cmd |-> cmd, r0 |-> r0, r1 |-> r1, color |-> color]
Shade(r) == Style("BACKGROUND", r, r, "whitesmoke")
BaseStyles == <<Style("GRID", 0, -1, "grey"), Style("BACKGROUND", 0, 0, "lightgrey")>>
NoTable == [rows |-> <<>>, styles |-> <<>>]

AllDicts(xs) == \A i \in DOMAIN xs : xs[i].t = "dict"

\* the flattening of the records of data["data"], lines 150-162: record i
\* (counted from 2) shades its rows when i is odd
RECURSIVE FlattenRecords(_, _, _)
FlattenRecords(tbl, recs, i) ==
    IF Len(recs) = 0 THEN tbl
    ELSE
        LET RECURSIVE Pairs(_, _)
            Pairs(acc, kv) ==
                IF Len(kv) = 0 THEN acc
                ELSE
                    LET rows1 == Append(acc.rows, <<StrV(kv[1][1]), kv[1][2]>>)
                        st1 == IF i % 2 = 1
                               THEN Append(acc.styles, Shade(Len(rows1) - 1))
                               ELSE acc.styles
                    IN Pairs([rows |-> rows1, styles |-> st1], Tail(kv))
        IN FlattenRecords(Pairs(tbl, recs[1].d), Tail(recs), i + 1)

\* a variant of the trailing rows that takes every key
RECURSIVE OtherKeys_all(_, _, _)
OtherKeys_all(tbl, kv, i) ==
    IF Len(kv) = 0 THEN tbl
    ELSE
        LET rows1 == Append(tbl.rows, <<StrV(kv[1][1]), kv[1][2]>>)
            st1 == IF i % 2 = 1
                   THEN Append(tbl.styles, Shade(Len(rows1) - 1))
                   ELSE tbl.styles
        IN OtherKeys_all([rows |-> rows1, styles |-> st1], Tail(kv), i + 1)

\* the trailing rows of the special case, lines 165-172
RECURSIVE OtherKeys(_, _, _)
OtherKeys(tbl, kv, i) ==
    IF Len(kv) = 0 THEN tbl
    ELSE IF kv[1][1] \in {"title", "data"} THEN OtherKeys(tbl, Tail(kv), i)
    ELSE
        LET rows1 == Append(tbl.rows, <<StrV(kv[1][1]), kv[1][2]>>)
            st1 == IF i % 2 = 1
                   THEN Append(tbl.styles, Shade(Len(rows1) - 1))
                   ELSE tbl.styles
        IN OtherKeys([rows |-> rows1, styles |-> st1], Tail(kv), i + 1)

\* the cell text of a value in the standard path, lines 179-194
CellValue(v) ==
    IF v.t = "list" /\ Len(v.l) > 0 /\ AllDicts(v.l)
    THEN StrV(Join([i \in DOMAIN v.l |->
                      Join([j \in DOMAIN v.l[i].d |->
                              v.l[i].d[j][1] \o ": " \o Str(v.l[i].d[j][2])], ", ")],
                   "\n"))
    ELSE IF v.t \in {"dict", "list"} THEN StrV(Str(v))
    ELSE v

\* the standard path, lines 177-200
RECURSIVE StandardRows(_, _, _)
StandardRows(tbl, kv, idx) ==
    IF Len(kv) = 0 THEN tbl
    ELSE
        LET rows1 == Append(tbl.rows, <<StrV(kv[1][1]), CellValue(kv[1][2])>>)
            st1 == IF idx % 2 = 1
                   THEN Append(tbl.styles, Shade(idx))
                   ELSE tbl.styles
        IN StandardRows([rows |-> rows1, styles |-> st1], Tail(kv), idx + 1)

_build_table(data) ==
    LET t0 == [rows |-> << <<StrV("Field"), StrV("Value")>> >>, styles |-> BaseStyles]
        special == /\ HasKey(data, "title")
                   /\ HasKey(data, "data")
                   /\ Get(data, "data", NoneV).t = "list"
                   /\ Len(Get(data, "data", NoneV).l) > 0
        t1 == IF special
              THEN [rows |-> Append(t0.rows, <<StrV("title"), Get(data, "title", NoneV)>>),
                    styles |-> Append(t0.styles, Shade(1))]
              ELSE t0
    IN IF special /\ AllDicts(Get(data, "data", NoneV).l)
       THEN LET t2 == FlattenRecords(t1, Get(data, "data", NoneV).l, 2)
            IN OtherKeys(t2, data.d, Len(t2.rows))
       ELSE LET t3 == StandardRows(t1, data.d, 1)
            IN IF Len(t3.rows) = 1
               THEN [t3 EXCEPT !.rows = Append(@, <<StrV("No data"), StrV("")>>)]
               ELSE t3

\* the key names of the model in sorted() order
AlphaOrder == <<"a", "b", "color", "cover", "error", "grand_total", "insights",
                "m", "summary", "title", "z">>

\* a variant that lists the keys in descending order
RECURSIVE SortedKeys_descending(_, _)
SortedKeys_descending(ks, order) ==
    IF Len(order) = 0 THEN <<>>
    ELSE SortedKeys_descending(ks, Tail(order))
         \o (IF order[1] \in ks THEN <<order[1]>> ELSE <<>>)

RECURSIVE SortedKeys(_, _)
SortedKeys(ks, order) ==
    IF Len(order) = 0 THEN <<>>
    ELSE (IF order[1] \in ks THEN <<order[1]>> ELSE <<>>) \o SortedKeys(ks, Tail(order))

_build_table_from_list(data) ==
    IF ~Truthy(data) THEN [rows |-> << <<StrV("No data")>> >>, styles |-> <<>>]
    ELSE IF AllDicts(data.l)
    THEN LET headers == SortedKeys(UNION {{data.l[i].d[j][1] : j \in DOMAIN data.l[i].d} :
                                            i \in DOMAIN data.l},
                                   AlphaOrder)
         IN [rows |-> << [h \in DOMAIN headers |-> StrV(headers[h])] >> \o
                      [i \in DOMAIN data.l |->
                          [h \in DOMAIN headers |-> Get(data.l[i], headers[h], StrV(""))]],
             styles |-> BaseStyles]
    ELSE [rows |-> [i \in DOMAIN data.l |->
                      IF data.l[i].t = "list" THEN data.l[i].l ELSE <<data.l[i]>>],
          styles |-> BaseStyles]

(***************************************************************************)
(* The world a call runs in, and the outcome of a step of Python code.     *)
(* An outcome carries the world and the builder as the step left them,     *)
(* and the exception it raised (type "" when it returned).                 *)
(***************************************************************************)
World == [disk |-> disk, pdfs |-> pdfs, dirs |-> dirs, nextTmp |-> nextTmp, figs |-> figs]

NoExc == [type |-> "", msg |-> ""]
Exc(type, msg) == [type |-> type, msg |-> msg]

\* what the environment does to a call: whether laying out and writing the
\* document fails, and the temp file (0: none) whose savefig fails
Envs(w) == [buildFails : BOOLEAN, badTmp : {0, w.nextTmp}]

(***************************************************************************)
(* Chart Renderer: create_chart.                                           *)
(***************************************************************************)
ChartTypes == {"bar", "pie", "line"}

\* a variant that takes the same temporary name at every call
create_chart_same_name(w, cs, env) ==
    IF cs.t # "dict"
    THEN [w |-> w, png |-> 0, exc |-> Exc("AttributeError", "no attribute 'get'")]
    ELSE
        LET chart_type == Get(cs, "chart_type", StrV("bar"))
            w1 == [w EXCEPT !.figs = @ + 1]
        IN IF ~(chart_type.t = "str" /\ chart_type.s \in ChartTypes)
           THEN [w |-> w1, png |-> 0,
                 exc |-> Exc("ValueError", "Unsupported chart type: " \o Str(chart_type))]
           ELSE
               LET w2 == [w1 EXCEPT !.disk = @ \cup {1}]
               IN IF env.badTmp = 1
                  THEN [w |-> w2, png |-> 0, exc |-> Exc("OSError", "savefig failed")]
                  ELSE [w |-> [w2 EXCEPT !.figs = @ - 1], png |-> 1, exc |-> NoExc]

create_chart(w, cs, env) ==
    IF cs.t # "dict"
    THEN [w |-> w, png |-> 0, exc |-> Exc("AttributeError", "no attribute 'get'")]
    ELSE
        LET chart_type == Get(cs, "chart_type", StrV("bar"))
            w1 == [w EXCEPT !.figs = @ + 1]                  \* _plt.subplots
        IN IF ~(chart_type.t = "str" /\ chart_type.s \in ChartTypes)
           THEN [w |-> w1, png |-> 0,
                 exc |-> Exc("ValueError", "Unsupported chart type: " \o Str(chart_type))]
           ELSE
               LET name == w1.nextTmp                        \* NamedTemporaryFile
                   w2 == [w1 EXCEPT !.disk = @ \cup {name}, !.nextTmp = @ + 1]
               IN IF env.badTmp = name                       \* fig.savefig fails
                  THEN [w |-> w2, png |-> 0, exc |-> Exc("OSError", "savefig failed")]
                  ELSE [w |-> [w2 EXCEPT !.figs = @ - 1],    \* _plt.close(fig)
                        png |-> name, exc |-> NoExc]

(***************************************************************************)
(* Document Builder: PdfReportBuilder.  A block of the story is one        *)
(* flowable: a Paragraph (its style and text), a Spacer, a PageBreak, an   *)
(* Image (the logo by path, a chart by temp name and size) or a Table.     *)
(***************************************************************************)
Block(kind) == [kind |-> kind, style |-> "", text |-> "", png |-> 0,
                width |-> 0, height |-> 0, table |-> NoTable]
Para(text, style) == [Block("para") EXCEPT !.text = text, !.style = style]
SpacerB == [Block("spacer") EXCEPT !.height = 12]
PageBreakB == Block("pagebreak")
LogoB(path) == [Block("logo") EXCEPT !.text = path, !.width = 80, !.height = 80]
ImageB(png, width, height) ==
    [Block("image") EXCEPT !.png = png, !.width = width, !.height = height]
TableB(tbl) == [Block("table") EXCEPT !.table = tbl]
BoxB(summary) ==
    [Block("box") EXCEPT !.text = summary,
        !.table = [rows |-> << <<StrV(summary)>> >>,
                   styles |-> <<Style("BOX", 0, -1, "black"),
                                Style("BACKGROUND", 0, -1, "whitesmoke")>>]]

\* A path: absolute or relative to the working directory, its directory as
\* the sequence of its components, and its file name.
Path(abs, dir, name) == [abs |-> abs, dir |-> dir, name |-> name]
NoPath == Path(FALSE, <<>>, "")
CwdDir == <<"cwd">>
Resolve(p) == IF p.abs THEN p ELSE Path(TRUE, CwdDir \o p.dir, p.name)
Prefixes(dir) == {SubSeq(dir, 1, k) : k \in 0..Len(dir)}

\* PdfReportBuilder.__init__
NoBuilder == [out_path |-> NoPath, story |-> <<>>, tmp_pngs |-> <<>>]
NewBuilder(out_path) == [out_path |-> out_path, story |-> <<>>, tmp_pngs |-> <<>>]

\* a variant that places the logo without looking for its file
add_cover_any_logo(bld, title, logo_path, summary) ==
    LET s1 == IF Truthy(logo_path) THEN <<LogoB(logo_path.s), SpacerB>> ELSE <<>>
        s2 == <<Para(title, "Title"), Para("Generated: " \o ToString(now), "Normal")>>
        s3 == IF Truthy(summary) THEN <<SpacerB, BoxB(summary.s)>> ELSE <<>>
    IN [bld EXCEPT !.story = @ \o s1 \o s2 \o s3 \o <<PageBreakB>>]

\* PdfReportBuilder.add_cover; title is a string, logo_path and summary are values
add_cover(bld, title, logo_path, summary) ==
    LET s1 == IF Truthy(logo_path) /\ logo_path.s \in assets
              THEN <<LogoB(logo_path.s), SpacerB>>
              ELSE <<>>
        s2 == <<Para(title, "Title"), Para("Generated: " \o ToString(now), "Normal")>>
        s3 == IF Truthy(summary) THEN <<SpacerB, BoxB(summary.s)>> ELSE <<>>
    IN [bld EXCEPT !.story = @ \o s1 \o s2 \o s3 \o <<PageBreakB>>]

\* a variant that registers the newest temporary image first
AddImage_front(bld, cs, r) ==
    IF r.exc # NoExc THEN [b |-> bld, w |-> r.w, exc |-> r.exc]
    ELSE
        LET width == Get(cs, "width", IntV(400)).n
            height == Get(cs, "height", IntV(250)).n
        IN [b |-> [bld EXCEPT !.story = Append(@, ImageB(r.png, width, height)),
                              !.tmp_pngs = <<r.png>> \o @],
            w |-> r.w, exc |-> NoExc]

\* lines 96-99: the image of a rendered chart joins the story and the registry
AddImage(bld, cs, r) ==
    IF r.exc # NoExc THEN [b |-> bld, w |-> r.w, exc |-> r.exc]
    ELSE
        LET width == Get(cs, "width", IntV(400)).n
            height == Get(cs, "height", IntV(250)).n
        IN [b |-> [bld EXCEPT !.story = Append(@, ImageB(r.png, width, height)),
                              !.tmp_pngs = Append(@, r.png)],
            w |-> r.w, exc |-> NoExc]

\* the loop over the chart specs of add_section, lines 95-100
RECURSIVE AddCharts(_, _, _)
AddCharts(r, specs, env) ==
    IF Len(specs) = 0 \/ r.exc # NoExc THEN r
    ELSE AddCharts(AddImage(r.b, specs[1], create_chart(r.w, specs[1], env)),
                   Tail(specs), env)

\* a variant of the else branch that rejects the section
UnsupportedType_raises(b0, w) ==
    [b |-> b0, w |-> w, exc |-> Exc("ValueError", "Unsupported section type")]

\* the else branch of add_section, lines 101-105
UnsupportedType(b0, w) ==
    [b |-> [b0 EXCEPT !.story =
               @ \o <<Para("Unsupported section type", "Italic"), SpacerB>>],
     w |-> w, exc |-> NoExc]

\* the spacer that ends a section, line 105
EndSection(r) ==
    IF r.exc # NoExc THEN r ELSE [r EXCEPT !.b.story = Append(@, SpacerB)]

\* PdfReportBuilder.add_section
add_section(bld, w, section, env) ==
    IF section.t # "dict"
    THEN [b |-> bld, w |-> w, exc |-> Exc("AttributeError", "no attribute 'get'")]
    ELSE
        LET b0 == [bld EXCEPT !.story =
                      Append(@, Para(Str(Get(section, "title", StrV(""))), "Heading2"))]
            stype == Get(section, "type", NoneV)
            done(bx) == [bx EXCEPT !.story = Append(@, SpacerB)]
        IN IF stype = StrV("paragraph")
           THEN [b |-> done([b0 EXCEPT !.story =
                               Append(@, Para(Str(Get(section, "text", StrV(""))), "Normal"))]),
                 w |-> w, exc |-> NoExc]
           ELSE IF stype = StrV("table")
           THEN LET table_data == Get(section, "data", DictV(<<>>))
                    table == IF table_data.t = "dict"
                             THEN _build_table(table_data)
                             ELSE _build_table_from_list(table_data)
                IN [b |-> done([b0 EXCEPT !.story = Append(@, TableB(table))]),
                    w |-> w, exc |-> NoExc]
           ELSE IF stype = StrV("chart")
           THEN LET spec == Get(section, "chart_spec", DictV(<<>>))
                    specs == IF spec.t = "list" THEN spec.l ELSE <<spec>>
                IN EndSection(AddCharts([b |-> b0, w |-> w, exc |-> NoExc], specs, env))
           ELSE UnsupportedType(b0, w)

\* doc.build(story): the layout reads every image lazily and writes the file
\* into the directory of out_path
BuildFails(bld, w, env) ==
    \/ env.buildFails
    \/ Resolve(bld.out_path).dir \notin w.dirs
    \/ \E i \in DOMAIN bld.story :
          bld.story[i].kind = "image" /\ bld.story[i].png \notin w.disk

\* a variant of save that forgets the temporary images
save_keeps_pngs(bld, w, env) ==
    IF BuildFails(bld, w, env)
    THEN [b |-> bld, w |-> w, exc |-> Exc("OSError", "build failed"), path |-> NoPath,
          doc |-> <<>>]
    ELSE [b |-> bld, doc |-> bld.story,
          w |-> [w EXCEPT !.pdfs = @ \cup {Resolve(bld.out_path)}],
          exc |-> NoExc, path |-> Resolve(bld.out_path)]

\* PdfReportBuilder.save
save(bld, w, env) ==
    IF BuildFails(bld, w, env)
    THEN [b |-> bld, w |-> w, exc |-> Exc("OSError", "build failed"), path |-> NoPath,
          doc |-> <<>>]
    ELSE [b |-> bld,
          doc |-> bld.story,
          w |-> [w EXCEPT !.pdfs = @ \cup {Resolve(bld.out_path)},
                          !.disk = @ \ Range(bld.tmp_pngs)],
          exc |-> NoExc,
          path |-> Resolve(bld.out_path)]

\* PdfReportBuilder.__exit__
exit(bld, w) == [w EXCEPT !.disk = @ \ Range(bld.tmp_pngs)]

(***************************************************************************)
(* Report Orchestrator: create_pdf.                                        *)
(* A run of create_pdf is the builder and the world as it left them, the   *)
(* exception it raised or the path it returned, and the calls it made on   *)
(* the builder, in order.                                                  *)
(***************************************************************************)
ReportDir == <<"app", "reports">>          \* REPORT_DIR
LogoDefault == "assets/logo.png"           \* logo_default
DefaultTitle == "Data Assistant Report"

BCall(op, title, logo, summary, section) ==
    [op |-> op, title |-> title, logo |-> logo, summary |-> summary, section |-> section]
CoverCall(title, logo, summary) == BCall("add_cover", title, logo, summary, NoneV)
SectionCall(section) == BCall("add_section", "", NoneV, NoneV, section)
SaveCall == BCall("save", "", NoneV, NoneV, NoneV)

Run(bld, w, exc, path, trace) ==
    [b |-> bld, w |-> w, exc |-> exc, path |-> path, trace |-> trace, doc |-> <<>>]

\* the run after a call on the builder that left outcome r
Called(r, trace) == Run(r.b, r.w, r.exc, NoPath, trace)

\* an optional out_path argument
NoOut == [some |-> FALSE, p |-> NoPath]
Out(p) == [some |-> TRUE, p |-> p]

\* a variant that also rejects a payload none of whose values is truthy
IsEmptyPayload_falsy(data) ==
    ~Truthy(data) \/ (data.t = "dict" /\ \A i \in DOMAIN data.d : ~Truthy(data.d[i][2]))

\* `not data`, line 281
IsEmptyPayload(data) == ~Truthy(data)

\* a variant that reads the value of the key: data.get("sections")
HasSections_truthy(data) ==
    data.t = "dict" /\ Truthy(Get(data, "sections", NoneV))

\* has_sections, line 295
HasSections(data) == data.t = "dict" /\ HasKey(data, "sections")

\* the out_path the builder gets, lines 284-288
TargetPath(out_path) ==
    IF ~out_path.some
    THEN Path(TRUE, ReportDir, "report-" \o ToString(now) \o ".pdf")
    ELSE out_path.p

\* out_path.parent.mkdir(parents=True, exist_ok=True), line 289
MakeParents(w, out_path) ==
    IF out_path.some
    THEN [w EXCEPT !.dirs = @ \cup Prefixes(Resolve(out_path.p).dir)]
    ELSE w

\* str(logo_default) if logo_default.exists() else None
DefaultLogo == IF LogoDefault \in assets THEN StrV(LogoDefault) ELSE NoneV

\* a for loop of builder.add_section calls, stopped by the first exception
RECURSIVE AddSections(_, _, _)
AddSections(run, sections, env) ==
    IF Len(sections) = 0 \/ run.exc # NoExc THEN run
    ELSE AddSections(Called(add_section(run.b, run.w, sections[1], env),
                            Append(run.trace, SectionCall(sections[1]))),
                     Tail(sections), env)

\* a variant that gives every insight a heading
InsightSections_titled(insights) ==
    [i \in DOMAIN insights |->
        DictV(<< <<"title", StrV("Insight")>>, <<"type", StrV("paragraph")>>,
                 <<"text", insights[i]>> >>)]

\* the sections made of the insights, lines 306-307
InsightSections(insights) ==
    [i \in DOMAIN insights |->
        DictV(<< <<"title", StrV("")>>, <<"type", StrV("paragraph")>>,
                 <<"text", insights[i]>> >>)]

\* `for x in xs: builder.add_section(...)`, lines 306-309: xs must be iterable
ForEachSection(run, xs, env) ==
    IF run.exc # NoExc THEN run
    ELSE IF xs.t # "list"
    THEN [run EXCEPT !.exc = Exc("TypeError", "object is not iterable")]
    ELSE AddSections(run, xs.l, env)

\* the structured path, lines 298-309
StructuredPath(bld, w, data, env) ==
    LET cover == Get(data, "cover", DictV(<<>>))
        insights == Get(data, "insights", ListV(<<>>))
        sections == Get(data, "sections", ListV(<<>>))
    IN IF cover.t # "dict"
       THEN Run(bld, w, Exc("AttributeError", "no attribute 'get'"), NoPath, <<>>)
       ELSE
           LET title == Str(Get(data, "title", StrV(DefaultTitle)))
               logo == Get(cover, "logo_path", DefaultLogo)
               summary == Get(data, "summary", NoneV)
               r0 == Run(add_cover(bld, title, logo, summary), w, NoExc, NoPath,
                         <<CoverCall(title, logo, summary)>>)
           IN ForEachSection(
                  ForEachSection(r0,
                                 IF insights.t = "list"
                                 THEN ListV(InsightSections(insights.l))
                                 ELSE insights,
                                 env),
                  sections, env)

\* numeric_items, lines 317-319, in payload order
NumericItems(data) ==
    SelectSeq(data.d, LAMBDA kv : IsIntOrFloat(kv[2]))

\* the chart section of the flat path, lines 321-325
AutoChartSection(numeric_items) ==
    DictV(<< <<"title", StrV("Chart")>>, <<"type", StrV("chart")>>,
             <<"chart_spec",
               DictV(<< <<"chart_type", StrV("bar")>>,
                        <<"labels", ListV([i \in DOMAIN numeric_items |->
                                              StrV(numeric_items[i][1])])>>,
                        <<"values", ListV([i \in DOMAIN numeric_items |->
                                              numeric_items[i][2]])>> >>)>> >>)

\* the sections the flat path adds, lines 315-325
FlatSections(data, include_chart) ==
    << DictV(<< <<"title", StrV("Data")>>, <<"type", StrV("table")>>,
                <<"data", data>> >>) >>
    \o (IF include_chart /\ Len(NumericItems(data)) >= 3
        THEN <<AutoChartSection(NumericItems(data))>>
        ELSE <<>>)

\* the flat path, lines 311-325
FlatPath(bld, w, data, include_chart, env) ==
    LET r0 == Run(add_cover(bld, DefaultTitle, DefaultLogo, NoneV), w, NoExc, NoPath,
                  <<CoverCall(DefaultTitle, DefaultLogo, NoneV)>>)
    IN AddSections(r0, FlatSections(data, include_chart), env)

\* the run after builder.save() left outcome sv
Saved(sv, trace) == [Run(sv.b, sv.w, sv.exc, sv.path, trace) EXCEPT !.doc = sv.doc]

\* `return builder.save()`, line 327, reached when nothing raised before it
SaveRun(r, env) ==
    IF r.exc # NoExc THEN r
    ELSE Saved(save(r.b, r.w, env), Append(r.trace, SaveCall))

\* lines 295-327: the report of data, made with the builder
Generate(builder, w, data, include_chart, env) ==
    SaveRun(IF HasSections(data)
            THEN StructuredPath(builder, w, data, env)
            ELSE FlatPath(builder, w, data, include_chart, env),
            env)

create_pdf(w, data, out_path, include_chart, env) ==
    IF IsEmptyPayload(data)
    THEN Run(NoBuilder, w, Exc("ValueError", "data cannot be empty."), NoPath, <<>>)
    ELSE Generate(NewBuilder(TargetPath(out_path)), MakeParents(w, out_path),
                  data, include_chart, env)

(***************************************************************************)
(* Integration layer: create_pdf_wrapper of app.py.                        *)
(***************************************************************************)
\* json.loads on the request texts of the model (all shorter than the 200
\* characters after which raw_input is cut)
JsonTexts == {"{}", "[]", "[3, 0]", "7", "{\"a\": 3}", "make me a pdf"}
JsonOk(text) == text # "make me a pdf"
JsonValue(text) ==
    CASE text = "{}" -> DictV(<<>>)
      [] text = "[]" -> ListV(<<>>)
      [] text = "[3, 0]" -> ListV(<<IntV(3), IntV(0)>>)
      [] text = "7" -> IntV(7)
      [] text = "{\"a\": 3}" -> DictV(<< <<"a", IntV(3)>> >>)
      [] OTHER -> NoneV

\* lines 154-167: the request as a Python object
ParseRequest(data_json) ==
    IF data_json.t = "str"
    THEN IF JsonOk(data_json.s)
         THEN JsonValue(data_json.s)
         ELSE DictV(<< <<"error", StrV("Invalid JSON")>>,
                       <<"raw_input", StrV(data_json.s)>> >>)
    ELSE data_json

\* type(data).__name__
TypeName(v) == IF v.t = "none" THEN "NoneType" ELSE v.t

\* lines 171-183: the dictionary handed to create_pdf
AsDict(data) ==
    IF data.t = "dict" THEN data
    ELSE IF data.t = "list"
    THEN DictV([i \in DOMAIN data.l |-> <<"item_" \o ToString(i), data.l[i]>>])
    ELSE DictV(<< <<"error", StrV("Unsupported data type")>>,
                  <<"received_type", StrV("<class '" \o TypeName(data) \o "'>")>> >>)

CriticalError == "Critical error creating PDF"

\* a variant that drops the message of the exception
ErrorData_bare(exc) == DictV(<< <<"error", StrV("Failed to create PDF")>> >>)

\* the payload of the second attempt, line 191
ErrorData(exc) == DictV(<< <<"error", StrV("Failed to create PDF: " \o exc.msg)>> >>)

PdfCall(data, out_path, include_chart, run) ==
    [data |-> data, out_path |-> out_path, include_chart |-> include_chart,
     exc |-> run.exc, path |-> run.path]

\* the result of a wrapper call: the world, the calls of create_pdf it made,
\* the path or the text it returned, and the exception it raised (never)
\* lines 190-195: the outcome of the second attempt r2
SecondAttempt(c1, error_data, out_path, r2) ==
    LET c2 == PdfCall(error_data, out_path, FALSE, r2)
    IN IF r2.exc = NoExc
       THEN [w |-> r2.w, b |-> r2.b, calls |-> <<c1, c2>>, path |-> r2.path,
             text |-> "", exc |-> NoExc, doc |-> r2.doc]
       ELSE [w |-> r2.w, b |-> r2.b, calls |-> <<c1, c2>>, path |-> NoPath,
             text |-> CriticalError, exc |-> NoExc, doc |-> <<>>]

\* lines 186-192: the outcome of the first attempt r1
FirstAttempt(data, out_path, include_chart, r1, env2) ==
    LET c1 == PdfCall(data, out_path, include_chart, r1)
    IN IF r1.exc = NoExc
       THEN [w |-> r1.w, b |-> r1.b, calls |-> <<c1>>, path |-> r1.path, text |-> "",
             exc |-> NoExc, doc |-> r1.doc]
       ELSE SecondAttempt(c1, ErrorData(r1.exc), out_path,
                          create_pdf(r1.w, ErrorData(r1.exc), out_path, FALSE, env2))

create_pdf_wrapper(w, data_json, out_path, include_chart, env1, env2) ==
    LET data == AsDict(ParseRequest(data_json))
    IN FirstAttempt(data, out_path, include_chart,
                    create_pdf(w, data, out_path, include_chart, env1), env2)

(***************************************************************************)
(* Inputs.                                                                 *)
(***************************************************************************)
CustomLogo == "brand.png"

Dict2(k1, v1, k2, v2) == DictV(<< <<k1, v1>>, <<k2, v2>> >>)
Dict3(k1, v1, k2, v2, k3, v3) == DictV(<< <<k1, v1>>, <<k2, v2>>, <<k3, v3>> >>)

BarSpec == Dict3("chart_type", StrV("bar"),
                 "labels", ListV(<<StrV("A"), StrV("B")>>),
                 "values", ListV(<<IntV(1), IntV(2)>>))
PieSpec == DictV(<< <<"chart_type", StrV("pie")>>,
                    <<"labels", ListV(<<StrV("A"), StrV("B")>>)>>,
                    <<"values", ListV(<<IntV(1), IntV(2)>>)>>,
                    <<"width", IntV(300)>>, <<"height", IntV(200)>> >>)
TriangleSpec == Dict3("chart_type", StrV("triangle"),
                      "labels", ListV(<<StrV("A")>>),
                      "values", ListV(<<IntV(1)>>))

SecPara == Dict3("title", StrV("Intro"), "type", StrV("paragraph"), "text", StrV("hello"))
SecTable == Dict3("title", StrV("Totals"), "type", StrV("table"),
                  "data", Dict2("a", IntV(3), "grand_total", IntV(7)))
SecChart == Dict3("title", StrV("Bars"), "type", StrV("chart"), "chart_spec", BarSpec)
SecCharts == Dict3("title", StrV("Two"), "type", StrV("chart"),
                   "chart_spec", ListV(<<BarSpec, PieSpec>>))
SecChartsBad == Dict3("title", StrV("Mixed"), "type", StrV("chart"),
                      "chart_spec", ListV(<<BarSpec, TriangleSpec>>))
SecVideo == Dict2("title", StrV("Clip"), "type", StrV("video"))
SecNoType == DictV(<< <<"title", StrV("Bare")>> >>)

Sections == {SecPara, SecTable, SecChart, SecCharts, SecChartsBad, SecVideo, SecNoType}
\* the sections that payloads are made of
PayloadSections == {SecPara, SecChart, SecChartsBad, SecVideo}

RECURSIVE SeqsUpTo(_, _)
SeqsUpTo(S, n) ==
    IF n = 0 THEN {<<>>}
    ELSE LET shorter == SeqsUpTo(S, n - 1)
         IN shorter \cup {Append(q, x) : q \in {r \in shorter : Len(r) = n - 1}, x \in S}

CoverArgs == [title : {"Q3"}, logo : {NoneV, StrV(CustomLogo), StrV("gone.png")},
              summary : {NoneV, StrV("all good")}]

\* flat payloads: the k-th generic field is named f<9-k>, so that payload
\* order is not sorted order
FieldName(k) == "f" \o ToString(9 - k)
FieldValues == {IntV(0), FloatV(3), BoolV(TRUE), StrV("x")}
GenericItems ==
    {[k \in DOMAIN vs |-> <<FieldName(k), vs[k]>>] : vs \in SeqsUpTo(FieldValues, MaxKeys)}

TitleItem == <<"title", StrV("Q3 report")>>
SummaryItem == <<"summary", StrV("all good")>>
InsightsItem(xs) == <<"insights", ListV(xs)>>
CoverItem == <<"cover", DictV(<< <<"logo_path", StrV(CustomLogo)>> >>)>>

FlatMeta == <<TitleItem, SummaryItem, InsightsItem(<<StrV("up")>>)>>

\* flat payloads of the wrapper and of the tests: the error shape of app.py,
\* values that are falsy, values that are nested, and the two title/data
\* shapes of _build_table
ErrorShaped == Dict2("error", StrV("Invalid JSON"), "raw_input", StrV("make me a pdf"))
FalsyValues ==
    DictV(<< <<"a", NoneV>>, <<"b", StrV("")>>, <<"m", BoolV(FALSE)>>, <<"z", IntV(0)>> >>)
NestedValues ==
    Dict3("a", DictV(<< <<"z", IntV(3)>> >>),
          "b", ListV(<<DictV(<< <<"a", IntV(3)>> >>), DictV(<< <<"m", StrV("x")>> >>)>>),
          "m", ListV(<<IntV(3), NoneV>>))
TitledRecords ==
    Dict3("title", StrV("Q3"),
          "data", ListV(<<DictV(<< <<"a", IntV(3)>> >>), DictV(<< <<"m", IntV(0)>> >>)>>),
          "z", StrV(""))
TitledScalars == Dict2("title", StrV("Q3"), "data", ListV(<<IntV(3)>>))
EdgePayloads == {ErrorShaped, FalsyValues, NestedValues, TitledRecords, TitledScalars}

FlatPayloads ==
    {DictV(g) : g \in GenericItems}
    \cup {DictV(FlatMeta \o g) : g \in {x \in GenericItems : Len(x) <= 1}}
    \cup EdgePayloads

StructMeta ==
    {<<>>,
     <<TitleItem, CoverItem, InsightsItem(<<StrV("up"), StrV("down")>>), SummaryItem>>,
     <<<<FieldName(1), IntV(3)>>, <<FieldName(2), IntV(0)>>, <<FieldName(3), FloatV(3)>>,
       InsightsItem(<<>>)>>}
StructPayloads ==
    {DictV(m \o << <<"sections", ListV(ss)>> >>) :
        m \in StructMeta, ss \in SeqsUpTo(PayloadSections, MaxSections)}

Payloads == FlatPayloads \cup StructPayloads

\* the paths a caller of the class builds at: in the working directory, and
\* in a directory that nobody made
BuilderPaths == {Path(FALSE, <<>>, "t.pdf"), Path(FALSE, <<"out", "q3">>, "r.pdf")}

OutPaths == {NoOut, Out(Path(FALSE, <<"out", "q3">>, "r.pdf"))}

(***************************************************************************)
(* SQL tool: run_sql and its validation.  A query is the sequence of its   *)
(* characters.                                                             *)
(***************************************************************************)
LowerCase == <<"a", "b", "c", "d", "e", "f", "g", "h", "i", "j", "k", "l", "m",
               "n", "o", "p", "q", "r", "s", "t", "u", "v", "w", "x", "y", "z">>
UpperCase == <<"A", "B", "C", "D", "E", "F", "G", "H", "I", "J", "K", "L", "M",
               "N", "O", "P", "Q", "R", "S", "T", "U", "V", "W", "X", "Y", "Z">>
Whitespace == {" ", "\t", "\n", "\r"}

\* str.upper
UpperChar(c) ==
    IF \E i \in DOMAIN LowerCase : LowerCase[i] = c
    THEN UpperCase[CHOOSE i \in DOMAIN LowerCase : LowerCase[i] = c]
    ELSE c
Upper(q) == [i \in DOMAIN q |-> UpperChar(q[i])]

\* str.strip
Strip(q) ==
    LET keep == {i \in DOMAIN q : q[i] \notin Whitespace}
    IN IF keep = {} THEN <<>>
       ELSE SubSeq(q, CHOOSE i \in keep : \A j \in keep : i <= j,
                      CHOOSE i \in keep : \A j \in keep : j <= i)

\* str.startswith and the substring test `p in q`
StartsWith(q, p) == Len(q) >= Len(p) /\ SubSeq(q, 1, Len(p)) = p
Contains(q, p) == \E i \in 1..(Len(q) - Len(p) + 1) : SubSeq(q, i, i + Len(p) - 1) = p

Keyword(name, chars) == [name |-> name, chars |-> chars]
SelectWord == <<"S", "E", "L", "E", "C", "T">>
disallowed_keywords ==
    <<Keyword("INSERT", <<"I", "N", "S", "E", "R", "T">>),
      Keyword("UPDATE", <<"U", "P", "D", "A", "T", "E">>),
      Keyword("DELETE", <<"D", "E", "L", "E", "T", "E">>),
      Keyword("DROP", <<"D", "R", "O", "P">>),
      Keyword("ALTER", <<"A", "L", "T", "E", "R">>),
      Keyword("CREATE", <<"C", "R", "E", "A", "T", "E">>)>>

\* f" {keyword} " in f" {normalized_query} "
KeywordFound(normalized_query, keyword) ==
    Contains(<<" ">> \o normalized_query \o <<" ">>, <<" ">> \o keyword.chars \o <<" ">>)

\* _validate_query_is_select: the exception it raises, NoExc when it returns True
_validate_query_is_select(query) ==
    LET normalized_query == Upper(Strip(query))
        found == {i \in DOMAIN disallowed_keywords :
                     KeywordFound(normalized_query, disallowed_keywords[i])}
    IN IF ~StartsWith(normalized_query, SelectWord \o <<" ">>)
       THEN Exc("ValueError", "Only SELECT queries are allowed for security reasons")
       ELSE IF found # {}
       THEN Exc("ValueError", "Query contains disallowed keyword: "
                    \o disallowed_keywords[CHOOSE i \in found : \A j \in found : i <= j].name)
       ELSE NoExc

\* the database: engines that create_engine made, statements that read_sql
\* handed to a connection
NoDb == [engines |-> 0, statements |-> 0]

\* run_sql; dbFails: the database rejects the statement
run_sql(d, query, dbFails) ==
    IF _validate_query_is_select(query) # NoExc
    THEN [db |-> d, exc |-> _validate_query_is_select(query), val |-> ""]
    ELSE [db |-> [engines |-> d.engines + 1, statements |-> d.statements + 1],
          exc |-> IF dbFails THEN Exc("DatabaseError", "") ELSE NoExc,
          val |-> IF dbFails THEN "" ELSE "records"]

(***************************************************************************)
(* Session layer: SessionManager, and answer() of the agent module.  A     *)
(* session id is a number, 0 for None; a dict of strings is the sequence   *)
(* of its <<key, value>> pairs.  The state of the chat layer is the record *)
(* of session_manager.sessions, the module-level agent and the uuid source.*)
(***************************************************************************)
SessionContext == [messages |-> <<>>, files |-> <<>>, metadata |-> <<>>]
Message(role, content) == [role |-> role, content |-> content]
Chat(ss, a, n) == [sessions |-> ss, agent |-> a, nextId |-> n]

\* d[k] = v on a dict of strings
SetItem(d, k, v) ==
    IF \E i \in DOMAIN d : d[i][1] = k
    THEN [i \in DOMAIN d |-> IF d[i][1] = k THEN <<k, v>> ELSE d[i]]
    ELSE Append(d, <<k, v>>)

\* self.sessions[session_id] = ctx
SetSession(ss, session_id, ctx) ==
    [x \in DOMAIN ss \cup {session_id} |-> IF x = session_id THEN ctx ELSE ss[x]]

\* SessionManager.create_session; the new id is st.nextId
create_session(st) ==
    [st EXCEPT !.sessions = SetSession(@, st.nextId, SessionContext), !.nextId = @ + 1]

\* SessionManager.add_message
add_message(ss, session_id, role, content) ==
    IF session_id \in DOMAIN ss
    THEN [ss EXCEPT ![session_id].messages = Append(@, Message(role, content))]
    ELSE ss

\* SessionManager.register_file
register_file(ss, session_id, file_type, file_path) ==
    IF session_id \in DOMAIN ss
    THEN [ss EXCEPT ![session_id].files = SetItem(@, file_type, file_path)]
    ELSE ss

\* file_type.upper() for the file types in use
FileTypeUpper(file_type) ==
    IF file_type = "csv" THEN "CSV" ELSE IF file_type = "pdf" THEN "PDF" ELSE file_type

RECURSIVE FileInfo(_)
FileInfo(files) ==
    IF Len(files) = 0 THEN ""
    ELSE "- " \o FileTypeUpper(files[1][1]) \o ": " \o files[1][2] \o "\n"
         \o FileInfo(Tail(files))

\* SessionManager.create_system_prompt
create_system_prompt(ss, session_id, base_prompt) ==
    IF session_id \notin DOMAIN ss THEN base_prompt
    ELSE IF Len(ss[session_id].files) > 0
    THEN base_prompt \o "\n\nAvailable files:\n" \o FileInfo(ss[session_id].files)
    ELSE base_prompt

\* a variant that resets the whole context of the session
clear_session_all(ss, session_id) ==
    IF session_id \in DOMAIN ss
    THEN [sessions |-> [ss EXCEPT ![session_id] = SessionContext], val |-> "True"]
    ELSE [sessions |-> ss, val |-> "False"]

\* SessionManager.clear_session, with its return value
clear_session(ss, session_id) ==
    IF session_id \in DOMAIN ss
    THEN [sessions |-> [ss EXCEPT ![session_id].messages = <<>>], val |-> "True"]
    ELSE [sessions |-> ss, val |-> "False"]

\* the module-level agent of assistant.py
BASE_INSTRUCTIONS == "You are a data assistant."
Agent(instructions, model) == [instructions |-> instructions, model |-> model]
AgentInit == Agent(BASE_INSTRUCTIONS, "gpt-4.1-mini")
OllamaModel == "OpenAIChatCompletionsModel(qwen3:8b)"    \* create_ollama_model()
OpenAiModel == "gpt-4.1-mini"                            \* os.getenv("OPENAI_MODEL", ...)

\* What a call of answer meets: whether Ollama answers, whether the API key
\* is set, whether create_ollama_model raises, whether the agent run raises.
AnswerEnvs == [ollamaUp : BOOLEAN, apiKey : BOOLEAN, setupFails : BOOLEAN,
               runFails : BOOLEAN]

\* the outcome of a part of answer: the chat state, the session id in use,
\* how far the call got, the text it returns, and the agent that the run read
Step(st, sid, stage, text, used) ==
    [st |-> st, sid |-> sid, stage |-> stage, text |-> text, used |-> used]

\* answer, lines 104-159: up to the user message in the history
Prepare(st, sid, prompt, provider, env) ==
    IF provider = "ollama" /\ ~env.ollamaUp
    THEN Step(st, sid, "unavailable", "Ollama not available or not running.", AgentInit)
    ELSE IF provider = "openai" /\ ~env.apiKey
    THEN Step(st, sid, "unavailable", "OPENAI_API_KEY not set.", AgentInit)
    ELSE IF provider = "ollama" /\ env.setupFails
    THEN Step([st EXCEPT !.agent.instructions =
                   create_system_prompt(st.sessions, sid, BASE_INSTRUCTIONS)],
              sid, "setup_error", "Error setting up ollama client: failed", AgentInit)
    ELSE Step([st EXCEPT
                 !.agent = Agent(create_system_prompt(st.sessions, sid, BASE_INSTRUCTIONS),
                                 IF provider = "ollama" THEN OllamaModel ELSE OpenAiModel),
                 !.sessions = add_message(@, sid, "user", prompt)],
              sid, "run", "", AgentInit)

answer_setup(st, prompt, provider, session_id, env) ==
    IF session_id = 0
    THEN Prepare(create_session(st), st.nextId, prompt, provider, env)
    ELSE Prepare(st, session_id, prompt, provider, env)

\* answer, lines 161-246: the agent run and the assistant message
answer_run(st, sid, env) ==
    IF env.runFails
    THEN Step([st EXCEPT !.sessions = add_message(@, sid, "assistant", "Error: failed")],
              sid, "run_error", "Error: failed", st.agent)
    ELSE Step([st EXCEPT !.sessions = add_message(@, sid, "assistant", "reply")],
              sid, "done", "reply", st.agent)

\* answer, when no other call runs between its parts
AfterSetup(s, env) ==
    IF s.stage = "run" THEN answer_run(s.st, s.sid, env) ELSE s
answer(st, prompt, provider, session_id, env) ==
    AfterSetup(answer_setup(st, prompt, provider, session_id, env), env)

\* respond of app.py; the state, and the session id it returns
ModelChoices == {"Local (qwen3:8b)", "OpenAI"}
Registered(st, session_id, csv_file) ==
    IF csv_file # ""
    THEN [st EXCEPT !.sessions = register_file(@, session_id, "csv", csv_file)]
    ELSE st
respond(st, message, model_choice, csv_file, session_id, env) ==
    IF session_id = 0
    THEN answer(Registered([st EXCEPT !.nextId = @ + 1], st.nextId, csv_file), message,
                IF model_choice = "Local (qwen3:8b)" THEN "ollama" ELSE "openai",
                st.nextId, env)
    ELSE answer(Registered(st, session_id, csv_file), message,
                IF model_choice = "Local (qwen3:8b)" THEN "ollama" ELSE "openai",
                session_id, env)

\* outcome of the last call of the chat layer or of the SQL tool
Res(op, sid, arg, val, stage, exc, used) ==
    [op |-> op, sid |-> sid, arg |-> arg, val |-> val, stage |-> stage, exc |-> exc,
     used |-> used]
NoRes == Res("", 0, <<>>, "", "", NoExc, AgentInit)

\* the threads of the server, and a thread that is not in answer
Threads == 1..MaxThreads
Idle == [pc |-> "idle", sid |-> 0, provider |-> "", setup |-> AgentInit]

(***************************************************************************)
(* The state machine.                                                      *)
(***************************************************************************)
Ret(op, data, out_path, include_chart, exc, path, text, trace) ==
    [op |-> op, data |-> data, out_path |-> out_path, include_chart |-> include_chart,
     exc |-> exc, path |-> path, text |-> text, trace |-> trace]
NoRet == Ret("", NoneV, NoOut, FALSE, NoExc, NoPath, "", <<>>)

\* calls start while the counters of the world have room
Room(k) == nextTmp + figs <= k

SetWorld(w) ==
    /\ disk' = w.disk
    /\ pdfs' = w.pdfs
    /\ dirs' = w.dirs
    /\ nextTmp' = w.nextTmp
    /\ figs' = w.figs

Init ==
    /\ disk = {}
    /\ pdfs = {}
    /\ dirs = Prefixes(ReportDir) \cup Prefixes(CwdDir)   \* REPORT_DIR.mkdir at import
    /\ assets = {LogoDefault, CustomLogo}
    /\ nextTmp = 1
    /\ figs = 0
    /\ now = 0
    /\ b = NoBuilder
    /\ phase = "none"
    /\ ret = NoRet
    /\ doc = <<>>
    /\ calls = <<>>
    /\ sessions = <<>>
    /\ agent = AgentInit
    /\ running = [t \in Threads |-> Idle]
    /\ nextId = 1
    /\ db = NoDb
    /\ res = NoRes

\* builder = PdfReportBuilder(out_path), as a caller of the class writes it
Construct(out_path) ==
    /\ phase = "none"
    /\ Room(MaxBuilderTmp)
    /\ b' = NewBuilder(out_path)
    /\ phase' = "empty"
    /\ ret' = Ret("init", NoneV, Out(out_path), FALSE, NoExc, NoPath, "", <<>>)
    /\ UNCHANGED <<disk, pdfs, dirs, assets, nextTmp, figs, now, doc, calls>>
    /\ UNCHANGED chatVars

\* builder.add_cover(title, logo_path, summary)
AddCover(a) ==
    /\ phase \in {"empty", "building", "saved"}
    /\ Len(b.story) < MaxStory
    /\ b' = add_cover(b, a.title, a.logo, a.summary)
    /\ phase' = IF phase = "saved" THEN "saved" ELSE "building"
    /\ ret' = Ret("add_cover", NoneV, NoOut, FALSE, NoExc, NoPath, "",
                  <<CoverCall(a.title, a.logo, a.summary)>>)
    /\ UNCHANGED <<disk, pdfs, dirs, assets, nextTmp, figs, now, doc, calls>>
    /\ UNCHANGED chatVars

\* builder.add_section(section)
AddSection(section, env) ==
    /\ phase \in {"empty", "building", "saved"}
    /\ Len(b.story) < MaxStory
    /\ Room(MaxBuilderTmp)
    /\ \E r \in {add_section(b, World, section, env)} :
          /\ b' = r.b
          /\ SetWorld(r.w)
          /\ ret' = Ret("add_section", NoneV, NoOut, FALSE, r.exc, NoPath, "",
                        <<SectionCall(section)>>)
    /\ phase' = IF phase = "saved" THEN "saved" ELSE "building"
    /\ UNCHANGED <<assets, now, doc, calls>>
    /\ UNCHANGED chatVars

\* builder.save()
Save(env) ==
    /\ phase \in {"empty", "building", "saved"}
    /\ \E r \in {save(b, World, env)} :
          /\ b' = r.b
          /\ SetWorld(r.w)
          /\ ret' = Ret("save", NoneV, NoOut, FALSE, r.exc, r.path, "", <<SaveCall>>)
          /\ phase' = IF r.exc = NoExc THEN "saved" ELSE phase
          /\ doc' = IF r.exc = NoExc THEN r.doc ELSE doc
    /\ UNCHANGED <<assets, now, calls>>
    /\ UNCHANGED chatVars

\* the end of `with PdfReportBuilder(...) as builder:`
Exit ==
    /\ phase \in {"empty", "building", "saved"}
    /\ SetWorld(exit(b, World))
    /\ b' = NoBuilder
    /\ phase' = "none"
    /\ ret' = Ret("exit", NoneV, NoOut, FALSE, NoExc, NoPath, "", <<>>)
    /\ doc' = <<>>
    /\ UNCHANGED <<assets, now, calls>>
    /\ UNCHANGED chatVars

\* a builder used without `with` goes out of scope
Abandon ==
    /\ phase \in {"empty", "building", "saved"}
    /\ b' = NoBuilder
    /\ phase' = "none"
    /\ ret' = Ret("drop", NoneV, NoOut, FALSE, NoExc, NoPath, "", <<>>)
    /\ doc' = <<>>
    /\ UNCHANGED <<disk, pdfs, dirs, assets, nextTmp, figs, now, calls>>
    /\ UNCHANGED chatVars

Next ==
    \/ \E p \in BuilderPaths : Construct(p)
    \/ \E a \in CoverArgs : AddCover(a)
    \/ \E section \in Sections, env \in Envs(World) : AddSection(section, env)
    \/ \E env \in Envs(World) : Save(env)
    \/ Exit
    \/ Abandon

Spec == Init /\ [][Next]_vars

(***************************************************************************)
(* A process that serves create_pdf calls, one after the other.            *)
(***************************************************************************)
CreatePdf(data, out_path, include_chart, env) ==
    /\ phase = "none"
    /\ Room(MaxTmp)
    /\ \E r \in {create_pdf(World, data, out_path, include_chart, env)} :
          /\ b' = r.b
          /\ SetWorld(r.w)
          /\ ret' = Ret("create_pdf", data, out_path, include_chart, r.exc, r.path,
                        "", r.trace)
          /\ doc' = r.doc
    /\ phase' = "done"
    /\ UNCHANGED <<assets, now, calls>>
    /\ UNCHANGED chatVars

\* the caller takes the result; the builder of the call is garbage
Return ==
    /\ phase = "done"
    /\ phase' = "none"
    /\ b' = NoBuilder
    /\ ret' = NoRet
    /\ doc' = <<>>
    /\ calls' = <<>>
    /\ UNCHANGED <<disk, pdfs, dirs, assets, nextTmp, figs, now>>
    /\ UNCHANGED chatVars

NextPdf ==
    \/ Return
    \/ \E data \in Payloads, out_path \in OutPaths, include_chart \in BOOLEAN,
       env \in Envs(World) : CreatePdf(data, out_path, include_chart, env)

SpecPdf == Init /\ [][NextPdf]_vars

(***************************************************************************)
(* The Gradio endpoint: create_pdf_wrapper calls, one after the other.     *)
(***************************************************************************)
Requests ==
    {StrV(t) : t \in JsonTexts}
    \cup {DictV(<<>>), NoneV, ListV(<<IntV(3), IntV(0), IntV(3)>>)}
    \cup {DictV(<< <<"sections", ListV(ss)>> >>) :
                ss \in SeqsUpTo(PayloadSections, MaxSections)}
    \cup {DictV(g) : g \in {x \in GenericItems : Len(x) <= 1}}
    \cup {DictV(<< <<"f8", IntV(3)>>, <<"f7", FloatV(3)>>, <<"f6", IntV(0)>> >>)}

CreatePdfWrapper(data_json, out_path, include_chart, env1, env2) ==
    /\ phase = "none"
    /\ Room(MaxTmp)
    /\ \E r \in {create_pdf_wrapper(World, data_json, out_path, include_chart, env1, env2)} :
          /\ b' = r.b
          /\ SetWorld(r.w)
          /\ calls' = r.calls
          /\ doc' = r.doc
          /\ ret' = Ret("create_pdf_wrapper", data_json, out_path, include_chart,
                        r.exc, r.path, r.text, <<>>)
    /\ phase' = "done"
    /\ UNCHANGED <<assets, now>>
    /\ UNCHANGED chatVars

NextWrapper ==
    \/ Return
    \/ \E data_json \in Requests, out_path \in OutPaths, include_chart \in BOOLEAN,
       env1 \in Envs(World), fails2 \in BOOLEAN :
        CreatePdfWrapper(data_json, out_path, include_chart, env1,
                         [buildFails |-> fails2, badTmp |-> 0])

SpecWrapper == Init /\ [][NextWrapper]_vars

(***************************************************************************)
(* A caller of create_chart: it renders charts and owns the files, which   *)
(* it deletes when it likes.                                               *)
(***************************************************************************)
LineSpec == Dict3("chart_type", StrV("line"),
                  "labels", ListV(<<StrV("A"), StrV("B")>>),
                  "values", ListV(<<IntV(1), IntV(2)>>))
NoTypeSpec == Dict2("labels", ListV(<<StrV("A")>>), "values", ListV(<<IntV(1)>>))
NumberTypeSpec == Dict3("chart_type", IntV(3),
                        "labels", ListV(<<StrV("A")>>),
                        "values", ListV(<<IntV(1)>>))
ChartSpecs == {BarSpec, PieSpec, LineSpec, TriangleSpec, NoTypeSpec, NumberTypeSpec}

ChartCall(cs, r) == [spec |-> cs, png |-> r.png, exc |-> r.exc]

\* png = create_chart(chart_spec)
CreateChart(cs, env) ==
    /\ Len(calls) < MaxCharts
    /\ \E r \in {create_chart(World, cs, env)} :
          /\ SetWorld(r.w)
          /\ calls' = Append(calls, ChartCall(cs, r))
          /\ ret' = Ret("create_chart", cs, NoOut, FALSE, r.exc, NoPath, "", <<>>)
    /\ UNCHANGED <<assets, now, b, phase, doc>>
    /\ UNCHANGED chatVars

\* os.unlink(png), by the caller
Unlink(png) ==
    /\ png \in disk
    /\ disk' = disk \ {png}
    /\ ret' = Ret("unlink", NoneV, NoOut, FALSE, NoExc, NoPath, "", <<>>)
    /\ UNCHANGED <<pdfs, dirs, assets, nextTmp, figs, now, b, phase, doc, calls>>
    /\ UNCHANGED chatVars

NextChart ==
    \/ \E cs \in ChartSpecs, bad \in {0, nextTmp} :
          CreateChart(cs, [buildFails |-> FALSE, badTmp |-> bad])
    \/ \E png \in disk : Unlink(png)

SpecChart == Init /\ [][NextChart]_vars

(***************************************************************************)
(* A server with several sessions: create_pdf calls run side by side.  A   *)
(* call is in flight between the moment it has fixed its output path       *)
(* (lines 281-293) and the moment it builds and saves the report (lines    *)
(* 295-327).  The clock ticks, and the reports directory can be removed    *)
(* from outside after the import has made it.                              *)
(***************************************************************************)
ServerPayloads == {DictV(<< <<FieldName(1), IntV(3)>> >>),
                   DictV(<< <<"sections", ListV(<<SecPara>>)>> >>)}

InFlight(data, out_path, include_chart, target) ==
    [data |-> data, out_path |-> out_path, include_chart |-> include_chart,
     target |-> target]

\* lines 281-293 of a create_pdf call
Begin(data, out_path, include_chart) ==
    /\ Len(calls) < MaxInFlight
    /\ IF IsEmptyPayload(data)
       THEN /\ ret' = Ret("create_pdf", data, out_path, include_chart,
                          Exc("ValueError", "data cannot be empty."), NoPath, "", <<>>)
            /\ UNCHANGED <<disk, pdfs, dirs, nextTmp, figs, calls>>
       ELSE /\ SetWorld(MakeParents(World, out_path))
            /\ calls' = Append(calls, InFlight(data, out_path, include_chart,
                                               TargetPath(out_path)))
            /\ ret' = Ret("begin", data, out_path, include_chart, NoExc,
                          TargetPath(out_path), "", <<>>)
    /\ UNCHANGED <<assets, now, b, phase, doc>>
    /\ UNCHANGED chatVars

\* lines 295-327 of the i-th call in flight
Finish(i, env) ==
    /\ i \in DOMAIN calls
    /\ \E r \in {Generate(NewBuilder(calls[i].target), World, calls[i].data,
                           calls[i].include_chart, env)} :
          /\ SetWorld(r.w)
          /\ b' = r.b
          /\ doc' = r.doc
          /\ ret' = Ret("create_pdf", calls[i].data, calls[i].out_path,
                        calls[i].include_chart, r.exc, r.path, "", r.trace)
    /\ calls' = SubSeq(calls, 1, i - 1) \o SubSeq(calls, i + 1, Len(calls))
    /\ UNCHANGED <<assets, now, phase>>
    /\ UNCHANGED chatVars

\* a second passes
Tick ==
    /\ now < MaxNow
    /\ now' = now + 1
    /\ UNCHANGED <<disk, pdfs, dirs, assets, nextTmp, figs, b, phase, ret, doc, calls>>
    /\ UNCHANGED chatVars

\* the reports directory is removed from outside, with what is in it
RemoveReports ==
    /\ ReportDir \in dirs
    /\ dirs' = dirs \ {ReportDir}
    /\ pdfs' = {p \in pdfs : p.dir # ReportDir}
    /\ ret' = Ret("rmtree", NoneV, NoOut, FALSE, NoExc, NoPath, "", <<>>)
    /\ UNCHANGED <<disk, assets, nextTmp, figs, now, b, phase, doc, calls>>
    /\ UNCHANGED chatVars

NextServer ==
    \/ \E data \in ServerPayloads \cup {DictV(<<>>)}, out_path \in OutPaths :
          Begin(data, out_path, TRUE)
    \/ \E i \in DOMAIN calls, fails \in BOOLEAN :
          Finish(i, [buildFails |-> fails, badTmp |-> 0])
    \/ Tick
    \/ RemoveReports

SpecServer == Init /\ [][NextServer]_vars

(***************************************************************************)
(* A caller of the table formatter, as add_section calls it (lines 86-91): *)
(* _build_table for a mapping, _build_table_from_list for anything else.   *)
(* The table made is the one block of doc.                                 *)
(***************************************************************************)
TableValues ==
    {NoneV, BoolV(FALSE), IntV(0), StrV(""), FloatV(3), ListV(<<IntV(3), NoneV>>),
     DictV(<< <<"z", IntV(3)>> >>),
     ListV(<<DictV(<< <<"a", IntV(3)>> >>), Dict2("m", StrV("x"), "z", IntV(0))>>)}
TableDicts ==
    {DictV([k \in DOMAIN vs |-> <<FieldName(k), vs[k]>>]) :
        vs \in SeqsUpTo(TableValues, MaxFields)}

Records == {DictV(<< <<"a", IntV(3)>> >>), Dict2("m", IntV(0), "a", StrV("")),
            Dict2("z", NoneV, "b", StrV("x"))}
DataLists == SeqsUpTo(Records \cup {IntV(3)}, MaxRecords)

\* mappings with a title and a data key, among other keys
TitledDicts ==
    {DictV(pre \o (IF swap THEN << <<"data", ListV(items)>>, <<"title", StrV("Q3")>> >>
                           ELSE << <<"title", StrV("Q3")>> >> \o mid
                                \o << <<"data", ListV(items)>> >>)
           \o post) :
        pre \in {<<>>, << <<"grand_total", IntV(7)>> >>},
        mid \in {<<>>, << <<"summary", NoneV>> >>},
        post \in {<<>>, << <<"color", StrV("")>> >>},
        swap \in BOOLEAN,
        items \in DataLists}
    \cup {Dict2("title", StrV("Q3"), "data", StrV("x"))}

TableLists ==
    {ListV(items) : items \in DataLists}
    \cup {NoneV, ListV(<<ListV(<<StrV("a"), StrV("b")>>), ListV(<<IntV(3), IntV(0)>>)>>)}

\* table = _build_table(table_data)
BuildTable(data) ==
    /\ doc' = <<TableB(_build_table(data))>>
    /\ ret' = Ret("_build_table", data, NoOut, FALSE, NoExc, NoPath, "", <<>>)
    /\ UNCHANGED <<disk, pdfs, dirs, assets, nextTmp, figs, now, b, phase, calls>>
    /\ UNCHANGED chatVars

\* table = _build_table_from_list(table_data)
BuildTableFromList(data) ==
    /\ doc' = <<TableB(_build_table_from_list(data))>>
    /\ ret' = Ret("_build_table_from_list", data, NoOut, FALSE, NoExc, NoPath, "", <<>>)
    /\ UNCHANGED <<disk, pdfs, dirs, assets, nextTmp, figs, now, b, phase, calls>>
    /\ UNCHANGED chatVars

NextTable ==
    \/ \E data \in TableDicts \cup TitledDicts : BuildTable(data)
    \/ \E data \in TableLists : BuildTableFromList(data)

SpecTable == Init /\ [][NextTable]_vars

(***************************************************************************)
(* Claims.                                                                 *)
(***************************************************************************)
IsPrefix(p, q) == Len(p) <= Len(q) /\ SubSeq(q, 1, Len(p)) = p
ListOf(v) == IF v.t = "list" THEN v.l ELSE <<>>
PdfReturned == ret.op = "create_pdf"

\* definitions used to state C1
C1_Empty(data) ==
    \/ Len(data.d) = 0
    \/ /\ HasKey(data, "sections")
       /\ Len(ListOf(Get(data, "sections", NoneV))) = 0
       /\ Len(ListOf(Get(data, "insights", NoneV))) = 0

\* C1: create_pdf rejects every empty payload with ValueError before it
\* creates a builder, a directory or a file; empty are the mapping {} and
\* a payload with a sections key, zero sections and zero insights.
\* (SpecPdf)
C1_EmptyRejected ==
    (PdfReturned /\ C1_Empty(ret.data)) =>
        /\ ret.exc.type = "ValueError"
        /\ b = NoBuilder
        /\ ret.trace = <<>>
        /\ doc = <<>>

\* C2: after a successful save() the output file exists, no temporary
\* image registered by the builder exists, and the value returned is the
\* resolved absolute output path.  (Spec)
C2_SaveCleansUp ==
    (ret.op = "save" /\ ret.exc = NoExc) =>
        /\ ret.path \in pdfs
        /\ ret.path.abs
        /\ ret.path.name = b.out_path.name
        /\ ret.path.dir = (IF b.out_path.abs THEN <<>> ELSE CwdDir) \o b.out_path.dir
        /\ \A i \in DOMAIN b.tmp_pngs : b.tmp_pngs[i] \notin disk

C2_Witness ==
    /\ ret.op = "save"
    /\ ret.exc = NoExc
    /\ Len(b.tmp_pngs) >= 2
    /\ ~b.out_path.abs

\* C3: on every exit path of a report-generation call, a failure of save()
\* and an exception of add_section included, the temporary images that the
\* builder registered are deleted.  (SpecPdf)
C3_NoTempLeft ==
    PdfReturned => \A i \in DOMAIN b.tmp_pngs : b.tmp_pngs[i] \notin disk

\* C4: once save() has returned, a call of add_cover or add_section fails
\* with AlreadyFinalized and leaves the block sequence and the temp-file
\* registry as they were.  (Spec)
C4_SavedIsTerminal ==
    [][(phase = "saved" /\ ret'.op \in {"add_cover", "add_section"}) =>
          /\ ret'.exc.type = "AlreadyFinalized"
          /\ b'.story = b.story
          /\ b'.tmp_pngs = b.tmp_pngs]_vars

C6_Unsupported(section) ==
    Get(section, "type", NoneV) \notin {StrV("paragraph"), StrV("table"), StrV("chart")}

\* C6: add_section with a type other than paragraph, table, chart (or no
\* type) does not fail: it appends the heading, the "Unsupported section
\* type" placeholder and a spacer, registers no temp file, and the sections
\* added before and after it are part of the saved document: mutators only
\* append to the block sequence, and save lays out the whole sequence.
\* (Spec)
C6_UnsupportedDegrades ==
    /\ [][(ret'.op = "add_section" /\ C6_Unsupported(ret'.trace[1].section)) =>
            /\ ret'.exc = NoExc
            /\ Len(b'.story) = Len(b.story) + 3
            /\ SubSeq(b'.story, 1, Len(b.story)) = b.story
            /\ LET n == Len(b.story)
                   h == b'.story[n + 1]
                   u == b'.story[n + 2]
                   sp == b'.story[n + 3]
               IN /\ h.kind = "para" /\ h.style = "Heading2"
                  /\ h.text = Get(ret'.trace[1].section, "title", StrV("")).s
                  /\ u.kind = "para" /\ u.style = "Italic"
                  /\ u.text = "Unsupported section type"
                  /\ sp.kind = "spacer"
            /\ b'.tmp_pngs = b.tmp_pngs
            /\ disk' = disk /\ nextTmp' = nextTmp]_vars
    /\ [][(ret'.op \in {"add_cover", "add_section"}) => IsPrefix(b.story, b'.story)]_vars
    /\ [][(ret'.op = "save" /\ ret'.exc = NoExc) => (doc' = b.story /\ b'.story = b.story)]_vars

C6_Witness ==
    /\ ret.op = "save"
    /\ ret.exc = NoExc
    /\ \E i, j, k \in DOMAIN doc :
          /\ i < j /\ j < k
          /\ doc[i].style = "Heading2" /\ doc[i].text = "Intro"
          /\ doc[j].text = "Unsupported section type"
          /\ doc[k].style = "Heading2" /\ doc[k].text = "Totals"

\* definitions used to state C7
C7_DataSection(data) ==
    DictV(<< <<"title", StrV("Data")>>, <<"type", StrV("table")>>, <<"data", data>> >>)
C7_FlatShape ==
    /\ Len(ret.trace) >= 2
    /\ ret.trace[1].op = "add_cover"
    /\ ret.trace[1].title = "Data Assistant Report"
    /\ ret.trace[1].summary = NoneV
    /\ ret.trace[2].op = "add_section"
    /\ ret.trace[2].section = C7_DataSection(ret.data)
C7_StructShape ==
    /\ Len(ret.trace) >= 1
    /\ ret.trace[1].op = "add_cover"
    /\ ret.trace[1].title =
          Get(ret.data, "title", StrV("Data Assistant Report")).s
    /\ ret.trace[1].summary = Get(ret.data, "summary", NoneV)
    /\ \A i \in DOMAIN ret.trace :
          ret.trace[i].op = "add_section" =>
              \/ ret.trace[i].section \in Range(ListOf(Get(ret.data, "sections", NoneV)))
              \/ /\ Get(ret.trace[i].section, "type", NoneV) = StrV("paragraph")
                 /\ Get(ret.trace[i].section, "text", NoneV)
                       \in Range(ListOf(Get(ret.data, "insights", NoneV)))

\* C7: create_pdf takes the structured path exactly when the payload has
\* a sections key, whatever its value and whatever other keys it has; every
\* other non-empty payload, one with title, summary or insights included,
\* takes the flat path.  (SpecPdf)
C7_ShapeBySectionsKey ==
    (PdfReturned /\ Len(ret.data.d) > 0) =>
        IF HasKey(ret.data, "sections")
        THEN C7_StructShape /\ ~C7_FlatShape
        ELSE C7_FlatShape

C7_Witness ==
    /\ PdfReturned
    /\ ret.exc = NoExc
    /\ HasKey(ret.data, "title") /\ HasKey(ret.data, "insights")
    /\ ~HasKey(ret.data, "sections")
    /\ C7_FlatShape

\* definitions used to state C8
C8_Insights == ListOf(Get(ret.data, "insights", NoneV))
C8_SectionList == ListOf(Get(ret.data, "sections", NoneV))
C8_Expected ==
    << [op |-> "add_cover",
        title |-> Get(ret.data, "title", StrV("Data Assistant Report")).s,
        logo |-> Get(Get(ret.data, "cover", DictV(<<>>)), "logo_path",
                     IF "assets/logo.png" \in assets THEN StrV("assets/logo.png")
                     ELSE NoneV),
        summary |-> Get(ret.data, "summary", NoneV),
        section |-> NoneV] >>
    \o [i \in DOMAIN C8_Insights |->
          [op |-> "add_section", title |-> "", logo |-> NoneV, summary |-> NoneV,
           section |-> DictV(<< <<"title", StrV("")>>, <<"type", StrV("paragraph")>>,
                               <<"text", C8_Insights[i]>> >>)]]
    \o [i \in DOMAIN C8_SectionList |->
          [op |-> "add_section", title |-> "", logo |-> NoneV, summary |-> NoneV,
           section |-> C8_SectionList[i]]]
    \o << [op |-> "save", title |-> "", logo |-> NoneV, summary |-> NoneV,
           section |-> NoneV] >>
C8_Headings(blocks) == SelectSeq(blocks, LAMBDA x : x.style = "Heading2")

\* C8: on the structured path the builder receives one add_cover (the
\* title or the default title, the logo, the summary), then one titleless
\* paragraph section per insight in list order, then one add_section per
\* entry of sections in list order, then save(); the blocks of the
\* document keep that order, with exactly N section headings after the
\* cover and the insights for N sections.  (SpecPdf)
C8_StructuredOrder ==
    (PdfReturned /\ HasKey(ret.data, "sections")) =>
        /\ IsPrefix(ret.trace, C8_Expected)
        /\ (ret.exc = NoExc) =>
              /\ ret.trace = C8_Expected
              /\ doc = b.story
              /\ LET hs == C8_Headings(doc)
                     k == Len(C8_Insights)
                     n == Len(C8_SectionList)
                 IN /\ Len(hs) = k + n
                    /\ \A i \in 1..k : hs[i].text = ""
                    /\ \A i \in 1..n :
                          hs[k + i].text = Get(C8_SectionList[i], "title", StrV("")).s
              /\ \E c \in DOMAIN doc :
                    /\ doc[c].kind = "pagebreak"
                    /\ \A i \in DOMAIN doc :
                          /\ doc[i].style = "Title" => i < c
                          /\ doc[i].style = "Heading2" => i > c

C8_Witness ==
    /\ PdfReturned
    /\ ret.exc = NoExc
    /\ Len(C8_Insights) = 2
    /\ Len(C8_SectionList) = 2
    /\ Get(C8_SectionList[1], "title", NoneV) # Get(C8_SectionList[2], "title", NoneV)
    /\ HasKey(ret.data, "title")

\* definitions used to state C9
C9_Numbers(data) == SelectSeq(data.d, LAMBDA kv : kv[2].t \in {"int", "float"})
C9_Charts == SelectSeq(ret.trace, LAMBDA c :
                 c.op = "add_section" /\ Get(c.section, "type", NoneV) = StrV("chart"))

\* C9: on the flat path create_pdf emits one table section "Data" with the
\* whole payload, and one more section, a bar chart, exactly when
\* include_chart is true and at least 3 top-level values are integers or
\* reals; the labels of the chart are the names of those fields and its
\* values their values, in payload order; otherwise no chart section and no
\* temp image.  (SpecPdf)
C9_FlatChartRule ==
    (PdfReturned /\ Len(ret.data.d) > 0 /\ ~HasKey(ret.data, "sections")) =>
        LET nums == C9_Numbers(ret.data)
            wanted == ret.include_chart /\ Len(nums) >= 3
        IN /\ C7_FlatShape
           /\ Len(C9_Charts) = (IF wanted THEN 1 ELSE 0)
           /\ wanted =>
                 LET cs == Get(C9_Charts[1].section, "chart_spec", NoneV)
                 IN /\ Get(cs, "chart_type", NoneV) = StrV("bar")
                    /\ Get(cs, "labels", NoneV) =
                          ListV([i \in DOMAIN nums |-> StrV(nums[i][1])])
                    /\ Get(cs, "values", NoneV) =
                          ListV([i \in DOMAIN nums |-> nums[i][2]])
           /\ ~wanted =>
                 /\ b.tmp_pngs = <<>>
                 /\ \A i \in DOMAIN b.story : b.story[i].kind # "image"

\* C10: in the chart of the flat path the numeric fields of value zero
\* are left out whenever a numeric field of another value remains; when all
\* are zero, all are kept.  (SpecPdf)
C10_ZerosDropped ==
    (PdfReturned /\ ~HasKey(ret.data, "sections") /\ Len(C9_Charts) > 0) =>
        LET nums == SelectSeq(ret.data.d, LAMBDA kv : kv[2].t \in {"int", "float", "bool"})
            nonzero == SelectSeq(nums, LAMBDA kv : kv[2].n # 0)
            plotted == IF Len(nonzero) > 0 THEN nonzero ELSE nums
            cs == Get(C9_Charts[1].section, "chart_spec", NoneV)
        IN /\ Get(cs, "labels", NoneV) = ListV([i \in DOMAIN plotted |-> StrV(plotted[i][1])])
           /\ Get(cs, "values", NoneV) = ListV([i \in DOMAIN plotted |-> plotted[i][2]])

\* definitions used to state C11
C11_Benign == [buildFails |-> FALSE, badTmp |-> 0]
C11_Flat(data) == data.t = "dict" /\ Len(data.d) > 0 /\ ~HasKey(data, "sections")

C12_Specs(section) ==
    LET spec == Get(section, "chart_spec", DictV(<<>>))
    IN IF spec.t = "list" THEN spec.l ELSE <<spec>>

\* C12: an add_section call that returns for a chart section with N chart
\* specs (a single spec counts as a list of one) appends, between the
\* heading and the spacer, N images in spec order, each of its own newly
\* created temp file and of the size its spec asks for, and registers the N
\* temp files in the same order after those registered before.  (Spec)
C12_MultiChart ==
    [][(/\ ret'.op = "add_section"
        /\ ret'.exc = NoExc
        /\ Get(ret'.trace[1].section, "type", NoneV) = StrV("chart"))
       => LET specs == C12_Specs(ret'.trace[1].section)
              k == Len(specs)
              n == Len(b.story)
              t == Len(b.tmp_pngs)
          IN /\ Len(b'.story) = n + k + 2
             /\ SubSeq(b'.story, 1, n) = b.story
             /\ b'.story[n + 1].style = "Heading2"
             /\ b'.story[n + k + 2].kind = "spacer"
             /\ Len(b'.tmp_pngs) = t + k
             /\ SubSeq(b'.tmp_pngs, 1, t) = b.tmp_pngs
             /\ \A i \in 1..k :
                   /\ b'.story[n + 1 + i].kind = "image"
                   /\ b'.story[n + 1 + i].png = b'.tmp_pngs[t + i]
                   /\ b'.story[n + 1 + i].width = Get(specs[i], "width", IntV(400)).n
                   /\ b'.story[n + 1 + i].height = Get(specs[i], "height", IntV(250)).n
                   /\ b'.tmp_pngs[t + i] \in disk' \ disk
                   /\ \A j \in 1..k : j < i => b'.tmp_pngs[t + j] < b'.tmp_pngs[t + i]]_vars

C12_Witness ==
    /\ ret.op = "add_section"
    /\ ret.exc = NoExc
    /\ ret.trace[1].section = SecCharts
    /\ Len(b.tmp_pngs) = 2
    /\ b.story[Len(b.story) - 1].width = 300

\* definitions used to state C13
C13_Supported == {StrV("bar"), StrV("pie"), StrV("line")}
C13_Name(v) == IF v.t = "str" THEN v.s ELSE ToString(v.n)

C14_NoFigureLeft == figs = 0

\* C15: two create_pdf calls in flight at the same time that both omit
\* out_path never have the same output path, also when both started in the
\* same second.  (SpecServer)
C15_DistinctDefaultPaths ==
    \A i, j \in DOMAIN calls :
        (i # j /\ ~calls[i].out_path.some /\ ~calls[j].out_path.some) =>
            calls[i].target # calls[j].target

\* C16: when create_pdf has accepted a non-empty payload and fixed its
\* output path, the directory of that path exists: the reports directory
\* when out_path was omitted, the parent of out_path, with its ancestors,
\* otherwise.  (SpecServer)
C16_OutputDirExists ==
    [][(ret'.op = "begin") =>
          Prefixes(Resolve(ret'.path).dir) \subseteq dirs']_vars

\* definitions used to state C17 and C18
C17_Rows == doc[1].table.rows
C17_Header == <<StrV("Field"), StrV("Value")>>
C18_Special(data) ==
    /\ HasKey(data, "title")
    /\ HasKey(data, "data")
    /\ Get(data, "data", NoneV).t = "list"
    /\ Len(Get(data, "data", NoneV).l) > 0
    /\ \A i \in DOMAIN Get(data, "data", NoneV).l : Get(data, "data", NoneV).l[i].t = "dict"

\* C17: for a non-empty mapping that does not meet the special-case
\* condition (a title key and a data key that holds a non-empty list of
\* mappings), _build_table gives the header row and then exactly one row
\* per key, in insertion order, with the key in its first cell; a value
\* that is false, null, zero or the empty string is the second cell as it
\* is.  (SpecTable)
C17_RowPerKey ==
    (ret.op = "_build_table" /\ ~C18_Special(ret.data) /\ Len(ret.data.d) > 0) =>
        /\ Len(C17_Rows) = 1 + Len(ret.data.d)
        /\ C17_Rows[1] = C17_Header
        /\ \A i \in DOMAIN ret.data.d :
              /\ C17_Rows[i + 1][1] = StrV(ret.data.d[i][1])
              /\ ret.data.d[i][2] \in {BoolV(FALSE), NoneV, IntV(0), StrV("")} =>
                    C17_Rows[i + 1][2] = ret.data.d[i][2]

\* definitions used to state C18
RECURSIVE C18_Flatten(_)
C18_Flatten(recs) ==
    IF Len(recs) = 0 THEN <<>>
    ELSE [i \in DOMAIN recs[1].d |-> <<StrV(recs[1].d[i][1]), recs[1].d[i][2]>>]
         \o C18_Flatten(Tail(recs))
C18_Rest(data) == SelectSeq(data.d, LAMBDA kv : kv[1] \notin {"title", "data"})

\* C18: for a mapping with a title key and a data key that holds a
\* non-empty list of mappings, _build_table gives the header row, the title
\* row, the key/value pairs of every record in record order and in each
\* record's key order, then one row per top-level key other than title and
\* data in insertion order, and nothing else.  (SpecTable)
C18_SpecialCaseRows ==
    (ret.op = "_build_table" /\ C18_Special(ret.data)) =>
        C17_Rows = <<C17_Header, <<StrV("title"), Get(ret.data, "title", NoneV)>> >>
                   \o C18_Flatten(Get(ret.data, "data", NoneV).l)
                   \o [i \in DOMAIN C18_Rest(ret.data) |->
                         <<StrV(C18_Rest(ret.data)[i][1]), C18_Rest(ret.data)[i][2]>>]

C18_Witness ==
    /\ ret.op = "_build_table"
    /\ C18_Special(ret.data)
    /\ Len(Get(ret.data, "data", NoneV).l) = 2
    /\ Len(C18_Flatten(Get(ret.data, "data", NoneV).l)) = 4
    /\ Len(C18_Rest(ret.data)) = 3
    /\ ret.data.d[1][1] = "grand_total"
    /\ Len(C17_Rows) = 9

\* definitions used to state C19
C19_Keys(recs) == UNION {{recs[i].d[j][1] : j \in DOMAIN recs[i].d} : i \in DOMAIN recs}
C19_Rank(k) == CHOOSE i \in DOMAIN AlphaOrder : AlphaOrder[i] = k
C19_Records(data) ==
    data.t = "list" /\ Len(data.l) > 0 /\ \A i \in DOMAIN data.l : data.l[i].t = "dict"

\* C19: for a non-empty list of mappings, _build_table_from_list gives as
\* first row the union of the keys of the records, each once, in sorted
\* order, and then exactly one row per record in list order, with one cell
\* per header: the record's value for that key, or the empty string when
\* the record has no such key.  (SpecTable)
C19_ListOfRecords ==
    (ret.op = "_build_table_from_list" /\ C19_Records(ret.data)) =>
        LET rows == doc[1].table.rows
            headers == rows[1]
        IN /\ Len(rows) = 1 + Len(ret.data.l)
           /\ {headers[h].s : h \in DOMAIN headers} = C19_Keys(ret.data.l)
           /\ \A h \in DOMAIN headers : headers[h].t = "str"
           /\ \A g, h \in DOMAIN headers :
                 g < h => C19_Rank(headers[g].s) < C19_Rank(headers[h].s)
           /\ \A i \in DOMAIN ret.data.l :
                 /\ Len(rows[i + 1]) = Len(headers)
                 /\ \A h \in DOMAIN headers :
                       rows[i + 1][h] =
                           IF HasKey(ret.data.l[i], headers[h].s)
                           THEN Get(ret.data.l[i], headers[h].s, NoneV)
                           ELSE StrV("")

C19_Witness ==
    /\ ret.op = "_build_table_from_list"
    /\ C19_Records(ret.data)
    /\ Len(ret.data.l) = 2
    /\ Len(doc[1].table.rows[1]) = 4
    /\ ret.data.l[1].d[1][1] = "z"
    /\ doc[1].table.rows[2][1] = StrV("")
    /\ doc[1].table.rows[2][4] = NoneV

\* definitions used to state C20
C20_NoRows(data) ==
    \/ data.t = "dict" /\ Len(data.d) = 0
    \/ data.t = "list" /\ Len(data.l) = 0

\* C20: when its input has no data rows (the empty mapping, the empty
\* list) a table of the formatter holds the two-cell placeholder row
\* ("No data", ""), from _build_table and from _build_table_from_list
\* alike.  (SpecTable)
C20_PlaceholderRow ==
    (ret.op \in {"_build_table", "_build_table_from_list"} /\ C20_NoRows(ret.data)) =>
        \E i \in DOMAIN doc[1].table.rows :
            doc[1].table.rows[i] = <<StrV("No data"), StrV("")>>

\* definitions used to state C21
C21_Bold(styles, r) ==
    \E s \in Range(styles) : s.cmd = "FONTNAME" /\ s.r0 = r /\ s.r1 = r

\* C21: in a table of _build_table every data row whose key is
\* grand_total has a bold font style entry on its row, and no other data
\* row has one.  (SpecTable)
C21_GrandTotalBold ==
    ret.op = "_build_table" =>
        \A i \in 2..Len(doc[1].table.rows) :
            C21_Bold(doc[1].table.styles, i - 1)
                <=> doc[1].table.rows[i][1] = StrV("grand_total")

\* C22: a failure inside one section (a chart spec of unsupported
\* chart_type) is caught at the section boundary: add_section does not
\* raise, and closes the section with its spacer, so that the sections
\* after it can still be added.  Failures of the file system while a chart
\* is rendered are left aside.  (Spec)
C22_SectionFailureCaught ==
    [][(ret'.op = "add_section" /\ ret'.exc.type # "OSError") =>
          /\ ret'.exc = NoExc
          /\ Len(b'.story) > Len(b.story)
          /\ b'.story[Len(b'.story)].kind = "spacer"]_vars

\* C28: every temporary chart image that a call of add_section leaves on
\* disk is recorded in the tmp_pngs of its builder, also when a later spec
\* of the same section fails and when rendering fails after the temporary
\* file was created.  (Spec)
C28_TempFilesRegistered ==
    [][ret'.op = "add_section" =>
          \A f \in disk' \ disk : \E i \in DOMAIN b'.tmp_pngs : b'.tmp_pngs[i] = f]_vars

(***************************************************************************)
(* A caller of the builder that only writes covers.                        *)
(***************************************************************************)
CoverArgsWide ==
    [title : {"Q3"},
     logo : {NoneV, StrV(""), StrV(CustomLogo), StrV("gone.png")},
     summary : {NoneV, StrV(""), StrV("all good")}]

NextCover ==
    \/ \E p \in BuilderPaths : Construct(p)
    \/ \E a \in CoverArgsWide : AddCover(a)
    \/ Abandon

SpecCover == Init /\ [][NextCover]_vars

\* definitions used to state C26
C26_Count(story, kind) == Cardinality({i \in DOMAIN story : story[i].kind = kind})
C26_Given(v) == v.t = "str" /\ v.s # ""

C27_Shaded(tbl) ==
    {tbl.styles[i].r0 : i \in {j \in DOMAIN tbl.styles :
        tbl.styles[j].cmd = "BACKGROUND" /\ tbl.styles[j].color = "whitesmoke"}}

\* C27: in a table that _build_table makes of a non-empty mapping the
\* header row has a background of its own, and the shaded data rows are
\* exactly the rows of odd row index, in the generic path and in the
\* special-case path alike.  (SpecTable)
C27_ShadingByRowParity ==
    (ret.op = "_build_table" /\ Len(ret.data.d) > 0) =>
        /\ \E s \in Range(doc[1].table.styles) :
              s.cmd = "BACKGROUND" /\ s.r0 = 0 /\ s.r1 = 0 /\ s.color = "lightgrey"
        /\ C27_Shaded(doc[1].table) =
              {r \in 1..(Len(doc[1].table.rows) - 1) : r % 2 = 1}

(***************************************************************************)
(* A caller of run_sql, one query after the other.                         *)
(***************************************************************************)
QueryPieces ==
    {<<"s", "e", "l", "e", "c", "t">>, <<" ">>, <<";">>, <<"\n">>, <<" ", "1">>,
     <<"D", "R", "O", "P">>, <<"d", "e", "l", "e", "t", "e">>}

RECURSIVE Concat(_)
Concat(ps) == IF Len(ps) = 0 THEN <<>> ELSE ps[1] \o Concat(Tail(ps))
Queries == {Concat(ps) : ps \in SeqsUpTo(QueryPieces, MaxPieces)}

\* run_sql(query)
RunSql(query, dbFails) ==
    /\ res.op = ""
    /\ db.engines < MaxEngines
    /\ \E r \in {run_sql(db, query, dbFails)} :
          /\ db' = r.db
          /\ res' = Res("run_sql", 0, query, r.val, "", r.exc, AgentInit)
    /\ UNCHANGED <<sessions, agent, running, nextId>>
    /\ UNCHANGED pdfVars

\* the caller takes the result of the call
TakeResult ==
    /\ res.op # ""
    /\ res' = NoRes
    /\ UNCHANGED <<sessions, agent, running, nextId, db>>
    /\ UNCHANGED pdfVars

NextSql ==
    \/ \E query \in Queries, dbFails \in BOOLEAN : RunSql(query, dbFails)
    \/ TakeResult

SpecSql == Init /\ [][NextSql]_vars

\* definitions used to state C25: a word of a query is a run of letters
\* with no letter next to it
C25_Letter(c) == \E i \in DOMAIN UpperCase : UpperCase[i] = c \/ LowerCase[i] = c
C25_HasWord(q, w) ==
    \E i \in 1..(Len(q) - Len(w) + 1) :
        /\ SubSeq(Upper(q), i, i + Len(w) - 1) = w
        /\ i = 1 \/ ~C25_Letter(q[i - 1])
        /\ i + Len(w) - 1 = Len(q) \/ ~C25_Letter(q[i + Len(w)])
C25_Forbidden(q) ==
    \/ ~StartsWith(Upper(Strip(q)), SelectWord)
    \/ \E k \in DOMAIN disallowed_keywords : C25_HasWord(q, disallowed_keywords[k].chars)

\* C25: run_sql validates before it touches the database: for a query
\* that does not start with SELECT, or that holds one of INSERT, UPDATE,
\* DELETE, DROP, ALTER, CREATE as a word, whatever separates the word from
\* the text around it, run_sql raises ValueError, creates no engine and
\* hands no statement to the database.  (SpecSql)
C25_ValidatedBeforeDatabase ==
    [][(res'.op = "run_sql" /\ C25_Forbidden(res'.arg)) =>
          /\ res'.exc.type = "ValueError"
          /\ db' = db]_vars

(***************************************************************************)
(* The chat of one user at a time: calls of the session manager, of answer *)
(* and of respond, one after the other.                                    *)
(***************************************************************************)
RECURSIVE TotalMessages(_, _)
TotalMessages(ss, ids) ==
    IF ids = {} THEN 0
    ELSE LET x == CHOOSE y \in ids : TRUE
         IN Len(ss[x].messages) + TotalMessages(ss, ids \ {x})

\* calls start when the caller has taken the result of the call before, and
\* while the histories have room
ChatRoom == res.op = "" /\ TotalMessages(sessions, DOMAIN sessions) + 2 <= MaxMessages
SetChat(st) ==
    /\ sessions' = st.sessions
    /\ agent' = st.agent
    /\ nextId' = st.nextId

SessionIds == 0..MaxSessions
CsvFiles == {"", "sales.csv", "people.csv"}
CallArg(prompt, provider, session_id, csv_file) ==
    [prompt |-> prompt, provider |-> provider, session_id |-> session_id,
     csv_file |-> csv_file]

\* session_manager.create_session()
CreateSession ==
    /\ res.op = ""
    /\ nextId <= MaxSessions
    /\ SetChat(create_session(Chat(sessions, agent, nextId)))
    /\ res' = Res("create_session", nextId, CallArg("", "", 0, ""), "", "", NoExc, agent)
    /\ UNCHANGED <<running, db>>
    /\ UNCHANGED pdfVars

\* answer(prompt, provider, session_id)
Answer(prompt, provider, session_id, env) ==
    /\ ChatRoom
    /\ session_id = 0 => nextId <= MaxSessions
    /\ \E r \in {answer(Chat(sessions, agent, nextId), prompt, provider, session_id, env)} :
          /\ SetChat(r.st)
          /\ res' = Res("answer", r.sid, CallArg(prompt, provider, session_id, ""),
                        r.text, r.stage, NoExc, r.used)
    /\ UNCHANGED <<running, db>>
    /\ UNCHANGED pdfVars

\* respond(message, history, model_choice, csv_file, session_id)
Respond(message, model_choice, csv_file, session_id, env) ==
    /\ ChatRoom
    /\ session_id = 0 => nextId <= MaxSessions
    /\ \E r \in {respond(Chat(sessions, agent, nextId), message, model_choice, csv_file,
                         session_id, env)} :
          /\ SetChat(r.st)
          /\ res' = Res("respond", r.sid, CallArg(message, model_choice, session_id, csv_file),
                        r.text, r.stage, NoExc, r.used)
    /\ UNCHANGED <<running, db>>
    /\ UNCHANGED pdfVars

\* session_manager.clear_session(session_id)
ClearSession(session_id) ==
    /\ res.op = ""
    /\ \E r \in {clear_session(sessions, session_id)} :
          /\ sessions' = r.sessions
          /\ res' = Res("clear_session", session_id, CallArg("", "", session_id, ""),
                        r.val, "", NoExc, agent)
    /\ UNCHANGED <<agent, running, nextId, db>>
    /\ UNCHANGED pdfVars

NextSession ==
    \/ CreateSession
    \/ \E provider \in {"openai", "ollama"}, session_id \in SessionIds, env \in AnswerEnvs :
          Answer("hi", provider, session_id, env)
    \/ \E model_choice \in ModelChoices, csv_file \in CsvFiles, session_id \in SessionIds,
          env \in AnswerEnvs :
          Respond("hi", model_choice, csv_file, session_id, env)
    \/ \E session_id \in SessionIds \ {0} : ClearSession(session_id)
    \/ TakeResult

SpecSession == Init /\ [][NextSession]_vars

\* C23: for a session that exists, a call of answer that gets past the
\* checks of the provider appends exactly two messages to the history of
\* the session: the prompt as a user message, then what it returns, the
\* reply or the error text, as an assistant message.  (SpecSession)
C23_TwoMessagesPerAnswer ==
    [][(/\ res'.op = "answer"
        /\ res'.arg.session_id \in DOMAIN sessions
        /\ res'.stage # "unavailable")
       => sessions'[res'.sid].messages =
              sessions[res'.sid].messages
              \o <<Message("user", res'.arg.prompt), Message("assistant", res'.val)>>]_vars

\* C24: clear_session on a session that exists empties its messages,
\* leaves its files and its metadata as they were, leaves every other
\* session as it was, adds and removes no session, and returns True; a
\* call of answer on a history that is empty, as the cleared one is, leaves
\* two messages in it; clear_session on an unknown id returns False and
\* changes nothing.  (SpecSession)
C24_ClearKeepsFiles ==
    /\ [][res'.op = "clear_session" =>
            IF res'.sid \in DOMAIN sessions
            THEN /\ res'.val = "True"
                 /\ DOMAIN sessions' = DOMAIN sessions
                 /\ sessions'[res'.sid].messages = <<>>
                 /\ sessions'[res'.sid].files = sessions[res'.sid].files
                 /\ sessions'[res'.sid].metadata = sessions[res'.sid].metadata
                 /\ \A x \in DOMAIN sessions \ {res'.sid} : sessions'[x] = sessions[x]
                 /\ agent' = agent
            ELSE /\ res'.val = "False"
                 /\ sessions' = sessions
                 /\ agent' = agent]_vars
    /\ [][(/\ res'.op = "answer"
           /\ res'.arg.session_id \in DOMAIN sessions
           /\ res'.stage \in {"done", "run_error"}
           /\ sessions[res'.sid].messages = <<>>)
          => Len(sessions'[res'.sid].messages) = 2]_vars

C24_Witness ==
    /\ res.op = "clear_session"
    /\ res.val = "True"
    /\ sessions[res.sid].messages = <<>>
    /\ sessions[res.sid].files = << <<"csv", "people.csv">> >>
    /\ \E x \in DOMAIN sessions \ {res.sid} : Len(sessions[x].messages) = 4

\* C29: after a call of respond with no session id and an uploaded CSV
\* file that ran the agent, the session id it returns names a session of
\* the session manager, whose csv file reference is the uploaded path and
\* whose history holds the user message and the assistant reply of the
\* turn.  (SpecSession)
C29_RespondSessionExists ==
    [][(/\ res'.op = "respond"
        /\ res'.arg.session_id = 0
        /\ res'.arg.csv_file # ""
        /\ res'.stage = "done")
       => /\ res'.sid \in DOMAIN sessions'
          /\ sessions'[res'.sid].files = << <<"csv", res'.arg.csv_file>> >>
          /\ sessions'[res'.sid].messages =
                <<Message("user", res'.arg.prompt), Message("assistant", res'.val)>>]_vars

(***************************************************************************)
(* Several chats at once: the web server runs answer in one thread per     *)
(* request, and the threads share session_manager and agent.  A thread     *)
(* can lose the processor between the setup of the agent and the run.      *)
(***************************************************************************)
InAnswer(sid, provider, setup) ==
    [pc |-> "run", sid |-> sid, provider |-> provider, setup |-> setup]

\* answer, lines 104-159, in thread t
AnswerSetup(t, prompt, provider, session_id, env) ==
    /\ running[t].pc = "idle"
    /\ ChatRoom
    /\ session_id = 0 => nextId <= MaxSessions
    /\ \E r \in {answer_setup(Chat(sessions, agent, nextId), prompt, provider,
                              session_id, env)} :
          /\ SetChat(r.st)
          /\ running' = [running EXCEPT ![t] =
                            IF r.stage = "run" THEN InAnswer(r.sid, provider, r.st.agent)
                            ELSE Idle]
          /\ res' = IF r.stage = "run" THEN res
                    ELSE Res("answer", r.sid, CallArg(prompt, provider, session_id, ""),
                             r.text, r.stage, NoExc, r.used)
    /\ UNCHANGED db
    /\ UNCHANGED pdfVars

\* answer, lines 161-246, in thread t: Runner.run reads the shared agent
AnswerRun(t, runFails) ==
    /\ running[t].pc = "run"
    /\ res.op = ""
    /\ \E r \in {answer_run(Chat(sessions, agent, nextId), running[t].sid,
                            [ollamaUp |-> TRUE, apiKey |-> TRUE, setupFails |-> FALSE,
                             runFails |-> runFails])} :
          /\ SetChat(r.st)
          /\ res' = Res("answer", r.sid, CallArg("", running[t].provider, t, ""),
                        r.text, r.stage, NoExc, r.used)
    /\ running' = [running EXCEPT ![t] = Idle]
    /\ UNCHANGED db
    /\ UNCHANGED pdfVars

\* session_manager.register_file(session_id, "csv", csv_file), as respond calls it
RegisterFile(session_id, csv_file) ==
    /\ res.op = ""
    /\ session_id \in DOMAIN sessions
    /\ Len(sessions[session_id].files) = 0
    /\ sessions' = register_file(sessions, session_id, "csv", csv_file)
    /\ UNCHANGED <<agent, running, nextId, db, res>>
    /\ UNCHANGED pdfVars

\* what the first part of answer meets, with the API key set
SetupEnvs == {env \in AnswerEnvs : env.apiKey /\ ~env.runFails}

NextAgent ==
    \/ \E t \in Threads, provider \in {"openai", "ollama"},
          session_id \in SessionIds, env \in SetupEnvs :
          AnswerSetup(t, "hi", provider, session_id, env)
    \/ \E t \in Threads, runFails \in BOOLEAN : AnswerRun(t, runFails)
    \/ \E session_id \in SessionIds : RegisterFile(session_id, "sales.csv")
    \/ TakeResult

SpecAgent == Init /\ [][NextAgent]_vars

\* C30: when calls of answer for different sessions and providers
\* interleave, the agent run of a call reads the instructions and the
\* model that this call set up: no other call replaces them between the
\* setup and the start of the run.  (SpecAgent)
C30_RunUsesOwnSetup ==
    [][\A t \in DOMAIN running :
          (running[t].pc = "run" /\ running'[t].pc = "idle")
              => res'.used = running[t].setup]_vars

====
